---- MODULE Spec2Model ----
(***************************************************************************)
(* Session/event aggregation engine of vision-ai-pro.                      *)
(*                                                                         *)
(* The repository holds four near-duplicate servers.  The variable         *)
(* `variant` says which one is running:                                    *)
(*   "index"  : src/vision-ai-pro/api/index.js (src/unnamed/part_001 has   *)
(*              the same handlers)                                         *)
(*   "server" : src/vision-ai-pro/api/server.js                            *)
(*   "legacy" : src/unnamed/part_000, lines 1-414 (sessions in an array)   *)
(*   "lite"   : src/unnamed/part_000, lines 415-615                        *)
(*                                                                         *)
(* Time is in milliseconds (Date.now()).  A request handler runs to        *)
(* completion on the event loop, so each handler is one action.  The       *)
(* concurrent specification at the end of the model splits a request into  *)
(* its arrival, its handler up to the log write, and the end of the write. *)
(***************************************************************************)
EXTENDS Integers, Sequences, FiniteSets, TLC

VARIABLES
  variant,    \* which server file is running
  now,        \* the wall clock, ms
  sessions,   \* stats.sessions, in insertion order (Map order / array order)
  stats,      \* the global counters of `stats`
  timers,     \* pending setTimeout callbacks of session/end, in firing order
  pending,    \* requests received and not yet handled, log writes in progress
  logs,       \* the log directory: per event type today's file and its backups
  response,   \* the last request's response (and what it passed to the log)
  hist        \* history variables (inputs seen so far); never read by a handler

vars == <<variant, now, sessions, stats, timers, pending, logs, response, hist>>

----------------------------------------------------------------------------
(* Bounds of the model *)

MaxSessions == 2    \* session/start requests
MaxRequests == 2    \* detection/interaction/end requests
MaxTicks == 2       \* clock advances
MaxCount == 1       \* faceCount/objectCount numbers are -MaxCount and MaxCount
NumSuffixes == 2    \* distinct outcomes of the random id suffix
ShortEntry == 100   \* bytes of the shortest log entry of the model

----------------------------------------------------------------------------
(* JavaScript values *)

\* A JS value held by a detection counter: a number, NaN, or a string (the
\* result of `number + string`).
Num(n) == [k |-> "num", n |-> n]
NaN == [k |-> "nan", n |-> 0]
StrVal == [k |-> "str", n |-> 0]

IsNum(v) == v.k = "num"

\* a + b, and a += b
JsAdd(a, b) ==
  IF a.k = "str" \/ b.k = "str" THEN StrVal
  ELSE IF a.k = "nan" \/ b.k = "nan" THEN NaN
  ELSE Num(a.n + b.n)

\* a <= b on JS values that are numbers (false when either is NaN; a
\* non-number string converts to NaN)
JsLeq(a, b) == IsNum(a) /\ IsNum(b) /\ a.n <= b.n

\* The faceCount / objectCount field of a request body
RawAbsent == [t |-> "absent", n |-> 0]
RawNumber(n) == [t |-> "number", n |-> n]
RawText == [t |-> "text", n |-> 0]       \* a non-numeric string such as "abc"

CountInputs == {RawAbsent, RawText, RawNumber(0 - MaxCount), RawNumber(MaxCount)}

\* `const { faceCount = 0 } = req.body`
DefaultZero(raw) == IF raw.t = "absent" THEN RawNumber(0) ELSE raw

\* parseInt(x)
ParseInt(raw) == IF raw.t = "number" THEN Num(raw.n) ELSE NaN

\* +x
UnaryPlus(raw) == IF raw.t = "number" THEN Num(raw.n) ELSE NaN

\* v || 0 on a number
OrZero(v) == IF v.k = "nan" \/ (v.k = "num" /\ v.n = 0) THEN Num(0) ELSE v

\* x || 0 on a raw field (undefined and 0 are falsy, a non-empty string is kept)
RawOrZero(raw) ==
  IF raw.t = "absent" THEN Num(0)
  ELSE IF raw.t = "number" THEN Num(raw.n)
  ELSE StrVal

\* Mutant of RoundSeconds: the fraction of a second is cut off
FloorSeconds(ms) == ms \div 1000

\* Math.round(ms / 1000) for ms >= 0 (halves round up)
RoundSeconds(ms) == (ms + 500) \div 1000


----------------------------------------------------------------------------
(* Requests *)

Variants == {"index", "server", "legacy", "lite"}

\* Variants that keep stats.sessions in a Map; "legacy" keeps an array.
UsesMap(v) == v # "legacy"

\* An undefined timestamp / duration field of a session
NoTime == -1
NoDuration == -1

\* A request body without sessionId, and a sessionId no session/start returned
NoSessionId == -1
UnknownId == -2

\* `session_${Date.now()}_${Math.random().toString(36).substr(2, 9)}`: the
\* pair (time, suffix), encoded injectively as one number
SessionIdOf(t, r) == t * NumSuffixes + r

WidgetNames == {"filterSelect", "slider"}

\* The `value` field of an interaction: undefined, the empty string, or a name
NoValue == "<undefined>"
Values == {NoValue, "", "blur", "sepia"}

\* JS truthiness of `value`
Truthy(value) == value # NoValue /\ value # ""

EventTypes ==
  {"SESSION_START", "DETECTION_RECORD", "INTERACTION_RECORD", "SESSION_END",
   "DETECTION", "INTERACTION", "SERVER_ERROR"}

----------------------------------------------------------------------------
(* The session store *)

\* What an entry is looked up by: the key of a Map entry, or, in the array of
\* the legacy server, the sessionId field that find() compares
KeyOf(s) == IF "key" \in DOMAIN s THEN s.key ELSE s.sessionId

\* The Map entry (key, rec)
Entry(key, rec) ==
  [f \in DOMAIN rec \cup {"key"} |-> IF f = "key" THEN key ELSE rec[f]]

\* Mutant of Find: the first record of the store, whatever its id
FindFirstStored(store, id) == IF Len(store) = 0 THEN 0 ELSE 1

\* Index of the first record with this id, 0 when there is none
\* (Map.get / Array.find)
Find(store, id) ==
  IF \E i \in 1..Len(store) : KeyOf(store[i]) = id
  THEN CHOOSE i \in 1..Len(store) :
         /\ KeyOf(store[i]) = id
         /\ \A j \in 1..(i - 1) : KeyOf(store[j]) # id
  ELSE 0

\* stats.sessions.has(sessionId)
validateSession(store, id) == Find(store, id) # 0

\* Mutant of MapSet: the record is stored under another key
MapSetOtherKey(store, id, rec) ==
  IF Find(store, id) # 0
  THEN [store EXCEPT ![Find(store, id)] = Entry(id + 1, rec)]
  ELSE Append(store, Entry(id + 1, rec))

\* stats.sessions.set(id, rec): replaces in place, or appends
MapSet(store, id, rec) ==
  IF Find(store, id) # 0
  THEN [store EXCEPT ![Find(store, id)] = Entry(id, rec)]
  ELSE Append(store, Entry(id, rec))

\* Mutant of MapDelete: the store is cleared
MapClear(store, id) == <<>>

\* Mutant of MapDelete: the entry stays and its record loses its fields
MapDeleteFields(store, id) ==
  [i \in 1..Len(store) |-> IF KeyOf(store[i]) = id THEN [key |-> id] ELSE store[i]]

\* stats.sessions.delete(id)
MapDelete(store, id) == SelectSeq(store, LAMBDA s : KeyOf(s) # id)

\* The record session/start builds
NewSession(v, id, t) ==
  [sessionId |-> id,
   startTime |-> t,
   endTime |-> NoTime,
   duration |-> NoDuration,
   faceDetections |-> Num(0),
   objectDetections |-> Num(0),
   interactions |-> 0,
   filters |-> <<>>,
   lastActivity |-> IF v \in {"index", "server"} THEN t ELSE NoTime]

\* const MAX_LOG_FILE_SIZE = 10 * 1024 * 1024
MAX_LOG_FILE_SIZE == 10485760

\* A log file: whether it exists, its size in bytes, its number of lines, the
\* bytes of its last line and its modification time
NoFile == [exists |-> FALSE, size |-> 0, lines |-> 0, last |-> 0, mtime |-> NoTime]

\* An existing file of `size` bytes last written when the server started
OldFile(size) ==
  [exists |-> TRUE, size |-> size, lines |-> 0, last |-> 0, mtime |-> 0]

\* The log directory before anything was written
NoLogs == [e \in EventTypes |-> [file |-> NoFile, backups |-> {}]]

\* How a call of logToFile goes: whether the file system calls succeed, and
\* the bytes of the entry (JSON.stringify(...) + '\n')
Writes(oks, sizes) == [ok : oks, bytes : sizes]

\* The entry sizes of the model
EntrySizes == {ShortEntry, 3 * ShortEntry}

\* Variants whose logToFile looks at the size of the file before it appends
Rotates(v) == v \in {"index", "server"}

\* Mutant of OverLimit: a file of exactly the limit counts too
AtOrOverLimit(size) == size >= MAX_LOG_FILE_SIZE

\* fileStats.size > MAX_LOG_FILE_SIZE
OverLimit(size) == size > MAX_LOG_FILE_SIZE

\* fs.renameSync(logPath, backupPath): the backup is named after Date.now(),
\* a backup of the same name is replaced; a rename keeps the modification time
RenameToBackup(backups, file, t) ==
  {b \in backups : b.at # t} \cup
    {[at |-> t, size |-> file.size, lines |-> file.lines, mtime |-> file.mtime]}

\* fs.appendFileSync(logPath, logEntry) at time t: creates the file when it is
\* missing
AppendEntry(file, bytes, t) ==
  [exists |-> TRUE, size |-> file.size + bytes, lines |-> file.lines + 1,
   last |-> bytes, mtime |-> t]

\* The records of a directory whose content is followed: those of today's
\* file, in the order of the file, and those of each backup
NoTrail == [current |-> <<>>, archived |-> {}]

\* An empty log directory whose records are followed
TrackedLogs ==
  [e \in EventTypes |-> [file |-> NoFile, backups |-> {}, trail |-> NoTrail]]

Followed(f) == "trail" \in DOMAIN f

\* The records after `data` was appended at time t, after a rotation or not: a
\* backup that takes the name of an earlier one replaces it
TrailAfter(trail, rotate, data, t) ==
  IF rotate
  THEN [current |-> <<data>>,
        archived |-> {a \in trail.archived : a.at # t} \cup
                       {[at |-> t, records |-> trail.current]}]
  ELSE [trail EXCEPT !.current = Append(@, data)]

\* logToFile(eventType, data) at time t: a failure of any file system call is
\* caught and leaves the directory as it was (the entry is lost).  Otherwise
\* today's file of the event type, when it exists and is over the limit, is
\* renamed to a backup, and the entry is appended.
logToFile(v, files, eventType, data, t, w) ==
  LET f == files[eventType]
      rotate == Rotates(v) /\ f.file.exists /\ OverLimit(f.file.size)
      file == AppendEntry(IF rotate THEN NoFile ELSE f.file, w.bytes, t)
      backups == IF rotate THEN RenameToBackup(f.backups, f.file, t) ELSE f.backups
  IN IF ~w.ok THEN files
     ELSE [files EXCEPT
             ![eventType] =
                IF Followed(f)
                THEN [file |-> file, backups |-> backups,
                      trail |-> TrailAfter(f.trail, rotate, data, t)]
                ELSE [file |-> file, backups |-> backups]]

\* server.js, the synchronous half of logToFile: existsSync, statSync and
\* renameSync run before logToFile returns
RotateIfOver(v, files, eventType, t) ==
  LET f == files[eventType]
  IN IF Rotates(v) /\ f.file.exists /\ OverLimit(f.file.size)
     THEN [files EXCEPT
             ![eventType] =
                IF Followed(f)
                THEN [file |-> NoFile,
                      backups |-> RenameToBackup(f.backups, f.file, t),
                      trail |-> [current |-> <<>>,
                                 archived |-> {a \in f.trail.archived : a.at # t} \cup
                                                {[at |-> t, records |-> f.trail.current]}]]
                ELSE [file |-> NoFile,
                      backups |-> RenameToBackup(f.backups, f.file, t)]]
     ELSE files

\* server.js, the asynchronous half: fs.appendFile writes the entry to the
\* file the path names when the write runs
AppendOnly(files, eventType, data, t, bytes) ==
  LET f == files[eventType]
  IN [files EXCEPT
        ![eventType] =
           IF Followed(f)
           THEN [file |-> AppendEntry(f.file, bytes, t),
                 backups |-> f.backups,
                 trail |-> [f.trail EXCEPT !.current = Append(@, data)]]
           ELSE [file |-> AppendEntry(f.file, bytes, t), backups |-> f.backups]]

\* Mutant of logToFileThrows: the try/catch of logToFile is missing
logToFileRethrows(w) == ~w.ok

\* Whether a failed write leaves logToFile as an exception: never, its whole
\* body is inside try/catch
logToFileThrows(w) == FALSE

\* The status of a handler that has reached its logToFile call: an exception
\* there would go to the handler's catch (or to the Express error handler),
\* which answers 500
StatusAfterLog(w) == IF logToFileThrows(w) THEN 500 ELSE 200

----------------------------------------------------------------------------
(* What each handler computes *)

\* The number a detection adds for one raw count field
DetectionDelta(v, raw) ==
  CASE v = "index"  -> OrZero(ParseInt(DefaultZero(raw)))
    [] v = "server" -> ParseInt(DefaultZero(raw))
    [] v = "lite"   -> UnaryPlus(DefaultZero(raw))
    [] v = "legacy" -> RawOrZero(raw)

\* detection/record on a session found in the store
ApplyDetection(v, s, faceCount, objectCount, t) ==
  [s EXCEPT
     !.faceDetections = JsAdd(@, DetectionDelta(v, faceCount)),
     !.objectDetections = JsAdd(@, DetectionDelta(v, objectCount)),
     !.lastActivity = IF v \in {"index", "server"} THEN t ELSE @]

StatsAfterDetection(v, st, faceCount, objectCount, t) ==
  [st EXCEPT
     !.totalFaceDetections = JsAdd(@, DetectionDelta(v, faceCount)),
     !.totalDetections =
        JsAdd(@, JsAdd(DetectionDelta(v, faceCount), DetectionDelta(v, objectCount))),
     !.lastUpdated = t]

\* Array.includes
Includes(seq, x) == \E i \in 1..Len(seq) : seq[i] = x

\* Mutant of PushFilter: the includes() test is missing
PushFilterNoCheck(v, filters, widgetName, value) ==
  IF widgetName = "filterSelect" /\ (v = "legacy" \/ Truthy(value))
  THEN Append(filters, value) ELSE filters

\* The filters of a session after an interaction
PushFilter(v, filters, widgetName, value) ==
  IF v = "legacy"
  THEN IF widgetName = "filterSelect" /\ ~Includes(filters, value)
       THEN Append(filters, value) ELSE filters
  ELSE IF widgetName = "filterSelect" /\ Truthy(value) /\ ~Includes(filters, value)
       THEN Append(filters, value) ELSE filters

\* interaction/record on a session found in the store
ApplyInteraction(v, s, widgetName, value, t) ==
  [s EXCEPT
     !.interactions = @ + 1,
     !.lastActivity = IF v \in {"index", "server"} THEN t ELSE @,
     !.filters = PushFilter(v, @, widgetName, value)]

StatsAfterInteraction(st, t) ==
  [st EXCEPT !.totalInteractions = @ + 1, !.lastUpdated = t]

\* Mutant of CloseSession: the duration is not computed
CloseSessionNoDuration(v, s, t) == [s EXCEPT !.endTime = t]

\* session/end on a session found in the store
CloseSession(v, s, t) ==
  [s EXCEPT
     !.endTime = t,
     !.duration = RoundSeconds(t - s.startTime),
     !.lastActivity = IF v \in {"index", "server"} THEN t ELSE @]

\* A summary that has no `filters` field
NoFilters == <<"<absent>">>

\* `${session.duration} segundos`
SecondsText(d) == [text |-> "segundos", n |-> d]

\* The summary session/end returns for the closed session s (undefined when
\* the legacy server did not find the session: `session?.x || 0`)
ReturnedSummary(v, s, found) ==
  CASE v = "legacy" ->
         [faceDetections |-> IF found THEN OrZero(s.faceDetections) ELSE Num(0),
          objectDetections |-> IF found THEN OrZero(s.objectDetections) ELSE Num(0),
          interactions |-> IF found THEN s.interactions ELSE 0,
          duration |-> IF found THEN s.duration ELSE 0,
          filters |-> NoFilters]
    [] v = "server" ->
         [faceDetections |-> s.faceDetections,
          objectDetections |-> s.objectDetections,
          interactions |-> s.interactions,
          duration |-> SecondsText(s.duration),
          filters |-> s.filters]
    [] OTHER ->
         [faceDetections |-> s.faceDetections,
          objectDetections |-> s.objectDetections,
          interactions |-> s.interactions,
          duration |-> s.duration,
          filters |-> s.filters]

\* The summary session/end passes to logToFile('SESSION_END', ...)
LoggedSummary(v, s, found) ==
  IF v = "server"
  THEN [ReturnedSummary(v, s, found) EXCEPT !.duration = s.duration]
  ELSE ReturnedSummary(v, s, found)

\* What session/end passes to the log and returns
EndBody(v, s, found) ==
  [kind |-> "summary",
   returned |-> ReturnedSummary(v, s, found),
   logged |-> LoggedSummary(v, s, found)]

StatsAfterEnd(v, st, t) ==
  IF v = "lite" THEN st ELSE [st EXCEPT !.lastUpdated = t]

\* Mutant of StatsAfterStart: the session is not counted
StatsAfterStartNoCount(st, t) == [st EXCEPT !.lastUpdated = t]

StatsAfterStart(st, t) ==
  [st EXCEPT !.totalSessions = @ + 1, !.lastUpdated = t]

\* setTimeout(() => stats.sessions.delete(sessionId), 60000), server.js only
RetentionDelay == 60000
\* Mutant of EvictionDue: the delay is missing
EvictionDueAtOnce(t) == t

\* When the callback set at time t may run
EvictionDue(t) == t + RetentionDelay

\* Mutant of StatsAfterEviction: the evicted session is taken off the count
StatsAfterEvictionDecrement(st) == [st EXCEPT !.totalSessions = @ - 1]

\* What the eviction callback does to the global counters: nothing
StatsAfterEviction(st) == st

ScheduleEviction(v, queue, id, t) ==
  IF v = "server"
  THEN Append(queue, [sessionId |-> id, due |-> EvictionDue(t)])
  ELSE queue

\* Nothing waits for the event loop and no log write is in progress
NoPending == [requests |-> {}, writes |-> <<>>]

\* A response without content
NoBody == [kind |-> "none"]

\* The response: the operation, the HTTP status, the sessionId it was about
\* and what the body carries
ReplyWith(op, status, id, body) ==
  [op |-> op, status |-> status, sessionId |-> id, body |-> body]

Reply(op, status, id) == ReplyWith(op, status, id, NoBody)

----------------------------------------------------------------------------
(* Reading a log file: GET /api/logs/:logFile *)

\* A string is a sequence of pieces, "/" being a piece of its own.  No piece
\* of the model is a prefix of another, so startsWith / endsWith on pieces is
\* startsWith / endsWith on characters.
Slash == "/"

\* LOGS_DIR, an absolute normalized path: /tmp/logs
LOGS_DIR == <<Slash, "tmp", Slash, "logs">>

\* `${eventType}_${dateString}.log`
LogFileName(e) == <<e, "_date", ".log">>

\* str.split('/')
RECURSIVE SplitPath(_)
SplitPath(str) ==
  IF str = <<>> THEN << <<>> >>
  ELSE LET rest == SplitPath(Tail(str))
       IN IF Head(str) = Slash THEN << <<>> >> \o rest
          ELSE << <<Head(str)>> \o Head(rest) >> \o Tail(rest)

\* path.normalize on the segments of an absolute path: empty segments and "."
\* are dropped, ".." takes the last segment off (and stays at the root)
RECURSIVE Normalize(_, _)
Normalize(segs, stack) ==
  IF segs = <<>> THEN stack
  ELSE LET seg == Head(segs)
       IN IF seg = <<>> \/ seg = <<".">>
          THEN Normalize(Tail(segs), stack)
          ELSE IF seg = <<"..">>
          THEN Normalize(Tail(segs),
                         IF stack = <<>> THEN stack
                         ELSE SubSeq(stack, 1, Len(stack) - 1))
          ELSE Normalize(Tail(segs), Append(stack, seg))

\* The segments of the path path.join(dir, name) names, dir being absolute
Resolved(dir, name) == Normalize(SplitPath(dir \o <<Slash>> \o name), <<>>)

\* The string of an absolute path given by its segments
RECURSIVE PathString(_)
PathString(segs) ==
  IF segs = <<>> THEN <<>>
  ELSE <<Slash>> \o Head(segs) \o PathString(Tail(segs))

\* path.join(dir, name)
PathJoin(dir, name) ==
  IF Resolved(dir, name) = <<>> THEN <<Slash>> ELSE PathString(Resolved(dir, name))

\* str.startsWith(prefix), str.endsWith(suffix)
StartsWith(str, prefix) ==
  Len(prefix) <= Len(str) /\ SubSeq(str, 1, Len(prefix)) = prefix

EndsWith(str, suffix) ==
  Len(suffix) <= Len(str)
    /\ SubSeq(str, Len(str) - Len(suffix) + 1, Len(str)) = suffix

\* The guard as a containment test: the prefix must end at a path separator
PassesGuardAtSeparator(logPath, dir) ==
  logPath = dir \/ StartsWith(logPath, dir \o <<Slash>>)

\* The traversal guard: logPath.startsWith(path.resolve(LOGS_DIR))
PassesGuard(logPath, dir) == StartsWith(logPath, dir)

\* The path names a file or directory inside the directory `dir`, or dir itself
Inside(segs, dirSegs) ==
  Len(dirSegs) <= Len(segs) /\ SubSeq(segs, 1, Len(dirSegs)) = dirSegs

\* The file names a client asks for (after URL decoding; none holds a "%", so
\* the handler's own decodeURIComponent returns them as they are)
RequestedNames ==
  {LogFileName("SESSION_START"),
   <<"..", Slash, "..", Slash, "etc", Slash, "passwd">>,
   <<Slash, "etc", Slash, "passwd">>,
   <<"..", Slash, "logs", "-evil", Slash, "x", ".log">>,
   <<"..", Slash, "logs", "-evil", Slash, "secret">>,
   <<"..", Slash, "logs", ".log">>,
   <<"etc", Slash, "..", Slash, "x", ".log">>}

\* fs.existsSync(logPath): today's log files are in `files`; any other path
\* exists or not as the machine has it (`other`)
ExistsSync(files, logPath, other) ==
  IF \E e \in EventTypes : logPath = PathJoin(LOGS_DIR, LogFileName(e))
  THEN \E e \in EventTypes :
          logPath = PathJoin(LOGS_DIR, LogFileName(e)) /\ files[e].file.exists
  ELSE other

\* Variants that have the route GET /api/logs/:logFile (the small server of
\* part_000 has none)
HasLogRoutes(v) == v # "lite"

\* The status of GET /api/logs/:logFile
ReadStatus(v, files, name, other) ==
  LET logPath == PathJoin(LOGS_DIR, name)
  IN IF ~PassesGuard(logPath, LOGS_DIR) THEN 403
     ELSE IF ~ExistsSync(files, logPath, other) THEN 404
     ELSE IF v # "legacy" /\ ~EndsWith(name, <<".log">>) THEN 404
     ELSE 200

\* The status of a request whose sessionId is not in the store
NotFoundStatus(v) == IF v = "lite" THEN 400 ELSE 404

----------------------------------------------------------------------------
(* History variables: what the requests asked for *)

\* The delta the stated policy applies for a raw count: a non-negative
\* integer as it is, anything else 0
PolicyDelta(raw) == IF raw.t = "number" /\ raw.n >= 0 THEN raw.n ELSE 0

\* The filters the stated rule gives a session after an interaction: the value
\* is appended when widgetName is "filterSelect" and the value is non-empty
\* and not among the filters yet
PolicyFilters(filters, widgetName, value) ==
  IF widgetName = "filterSelect" /\ Truthy(value) /\ ~Includes(filters, value)
  THEN Append(filters, value) ELSE filters

\* Kept with the response of an interaction on the stored session s: what
\* the stated rule makes of its filters (never read by a handler)
InteractionBody(s, widgetName, value) ==
  [kind |-> "interaction",
   policyFilters |-> PolicyFilters(s.filters, widgetName, value)]

\* A session id a request may carry
RequestIds == {NoSessionId, UnknownId} \cup hist.issued

\* hist.started      successful session/start calls
\* hist.requests     detection/interaction/end requests handled
\* hist.ticks        clock advances
\* hist.issued       the session ids returned so far
\* hist.faceAsked    per id: the sum of PolicyDelta(faceCount) over the
\*                   detections applied to the session now stored under it
\* hist.faceAskedTotal  the same sum over all sessions ever
\* hist.firstClose   per id: when session/end first closed it
\* hist.repeats      filterSelect interactions whose value was already in filters
\* hist.faults       requests whose handling threw an exception
\* hist.received     requests that arrived while others were in flight or not
\* hist.served       the requests handled one after the other by the event
\*                   loop of the concurrent specification, in that order
HistAfterStart(id) ==
  [hist EXCEPT
     !.started = @ + 1,
     !.issued = @ \cup {id},
     !.faceAsked = [i \in hist.issued \cup {id} |->
                      IF i = id /\ (UsesMap(variant) \/ Find(sessions, id) = 0)
                      THEN 0 ELSE hist.faceAsked[i]],
     !.firstClose = [i \in hist.issued \cup {id} |->
                       IF i \in hist.issued THEN hist.firstClose[i] ELSE NoTime]]

HistAfterDetection(id, faceCount) ==
  [hist EXCEPT
     !.requests = @ + 1,
     !.faceAsked[id] = @ + PolicyDelta(faceCount),
     !.faceAskedTotal = @ + PolicyDelta(faceCount)]

HistAfterInteraction(s, widgetName, value) ==
  [hist EXCEPT
     !.requests = @ + 1,
     !.repeats = IF widgetName = "filterSelect" /\ Includes(s.filters, value)
                 THEN @ + 1 ELSE @]

HistAfterEnd(id) ==
  [hist EXCEPT
     !.requests = @ + 1,
     !.firstClose[id] = IF @ = NoTime THEN now ELSE @]

HistAfterRequest == [hist EXCEPT !.requests = @ + 1]

\* The number JSON.stringify writes for a raw count field the handler passes
\* on as it came: a number, a string, or nothing
JsonCount(raw) ==
  IF raw.t = "number" THEN Num(raw.n)
  ELSE IF raw.t = "text" THEN StrVal
  ELSE NaN

\* The faceCount / objectCount a detection record carries: index.js and
\* server.js log the number they added, the servers of part_000 the field of
\* the request
LoggedCount(v, raw) ==
  IF v \in {"index", "server"} THEN DetectionDelta(v, raw) ELSE JsonCount(raw)

\* The data of a log record: n tells the calls of logToFile apart
LogDataAt(n, face, object) == [n |-> n, faceCount |-> face, objectCount |-> object]

\* A record whose content is not followed
NoData == LogDataAt(0, NaN, NaN)

\* The data of a record that carries no counts
EventData == LogDataAt(hist.started + hist.requests + hist.faults, NaN, NaN)

\* The data of a detection record
DetectionData(v, faceCount, objectCount) ==
  LogDataAt(hist.started + hist.requests + hist.faults,
            LoggedCount(v, faceCount), LoggedCount(v, objectCount))

----------------------------------------------------------------------------
(* The state machine *)

\* The server starts with the log directory being one of `dirs`
InitWith(dirs) ==
  /\ variant \in Variants
  /\ now = 0
  /\ sessions = <<>>
  /\ stats = [totalSessions |-> 0,
              totalDetections |-> Num(0),
              totalFaceDetections |-> Num(0),
              totalInteractions |-> 0,
              lastUpdated |-> 0]
  /\ timers = <<>>
  /\ pending = NoPending
  /\ logs \in dirs
  /\ response = Reply("none", 0, NoSessionId)
  /\ hist = [started |-> 0, requests |-> 0, ticks |-> 0, issued |-> {},
             faceAsked |-> [i \in {} |-> 0], faceAskedTotal |-> 0,
             firstClose |-> [i \in {} |-> NoTime], repeats |-> 0, faults |-> 0,
             received |-> 0, served |-> <<>>]

\* The server starts with an empty log directory
Init == InitWith({NoLogs})

\* POST /api/session/start
StartSession(r, w) ==
  LET id == SessionIdOf(now, r)
      rec == NewSession(variant, id, now)
  IN /\ hist.started < MaxSessions
     /\ sessions' = IF UsesMap(variant) THEN MapSet(sessions, id, rec)
                    ELSE Append(sessions, rec)
     /\ stats' = StatsAfterStart(stats, now)
     /\ logs' = logToFile(variant, logs, "SESSION_START", EventData, now, w)
     /\ response' = Reply("start", StatusAfterLog(w), id)
     /\ hist' = HistAfterStart(id)
     /\ UNCHANGED <<variant, pending, now, timers>>

\* A request rejected before it touches anything: 400 (no sessionId) or the
\* not-found answer
Reject(op, status, id) ==
  /\ response' = Reply(op, status, id)
  /\ hist' = HistAfterRequest
  /\ UNCHANGED <<variant, pending, now, sessions, stats, timers, logs>>

\* POST /api/detection/record
RecordDetection(id, faceCount, objectCount, w) ==
  LET i == Find(sessions, id)
      event == IF variant = "lite" THEN "DETECTION" ELSE "DETECTION_RECORD"
  IN /\ hist.requests < MaxRequests
     /\ IF id = NoSessionId THEN Reject("detection", 400, id)
        ELSE IF i = 0 /\ variant # "legacy"
          THEN Reject("detection", NotFoundStatus(variant), id)
        ELSE IF i = 0
          THEN /\ logs' = logToFile(variant, logs, event, DetectionData(variant, faceCount, objectCount),
                               now, w)
               /\ response' = Reply("detection", StatusAfterLog(w), id)
               /\ hist' = HistAfterRequest
               /\ UNCHANGED <<variant, pending, now, sessions, stats, timers>>
        ELSE /\ sessions' = [sessions EXCEPT
                               ![i] = ApplyDetection(variant, @, faceCount, objectCount, now)]
             /\ stats' = StatsAfterDetection(variant, stats, faceCount, objectCount, now)
             /\ logs' = logToFile(variant, logs, event, DetectionData(variant, faceCount, objectCount),
                               now, w)
             /\ response' = Reply("detection", StatusAfterLog(w), id)
             /\ hist' = HistAfterDetection(id, faceCount)
             /\ UNCHANGED <<variant, pending, now, timers>>

\* POST /api/interaction/record
RecordInteraction(id, widgetName, value, w) ==
  LET i == Find(sessions, id)
      event == IF variant = "lite" THEN "INTERACTION" ELSE "INTERACTION_RECORD"
  IN /\ hist.requests < MaxRequests
     /\ IF id = NoSessionId THEN Reject("interaction", 400, id)
        ELSE IF i = 0 /\ variant # "legacy"
          THEN Reject("interaction", NotFoundStatus(variant), id)
        ELSE IF i = 0
          THEN /\ logs' = logToFile(variant, logs, event, EventData, now, w)
               /\ response' = Reply("interaction", StatusAfterLog(w), id)
               /\ hist' = HistAfterRequest
               /\ UNCHANGED <<variant, pending, now, sessions, stats, timers>>
        ELSE /\ sessions' = [sessions EXCEPT
                               ![i] = ApplyInteraction(variant, @, widgetName, value, now)]
             /\ stats' = StatsAfterInteraction(stats, now)
             /\ logs' = logToFile(variant, logs, event, EventData, now, w)
             /\ response' = ReplyWith("interaction", StatusAfterLog(w), id,
                                      InteractionBody(sessions[i], widgetName, value))
             /\ hist' = HistAfterInteraction(sessions[i], widgetName, value)
             /\ UNCHANGED <<variant, pending, now, timers>>

\* POST /api/session/end
EndSession(id, w) ==
  LET i == Find(sessions, id)
  IN /\ hist.requests < MaxRequests
     /\ IF id = NoSessionId THEN Reject("end", 400, id)
        ELSE IF i = 0 /\ variant # "legacy"
          THEN Reject("end", NotFoundStatus(variant), id)
        ELSE IF i = 0
          THEN /\ logs' = logToFile(variant, logs, "SESSION_END", EventData, now, w)
               /\ response' = ReplyWith("end", StatusAfterLog(w), id,
                                        EndBody(variant, NewSession(variant, id, now), FALSE))
               /\ hist' = HistAfterRequest
               /\ UNCHANGED <<variant, pending, now, sessions, stats, timers>>
        ELSE /\ sessions' = [sessions EXCEPT ![i] = CloseSession(variant, @, now)]
             /\ stats' = StatsAfterEnd(variant, stats, now)
             /\ timers' = ScheduleEviction(variant, timers, id, now)
             /\ logs' = logToFile(variant, logs, "SESSION_END", EventData, now, w)
             /\ response' = ReplyWith("end", StatusAfterLog(w), id,
                                      EndBody(variant, CloseSession(variant, sessions[i], now), TRUE))
             /\ hist' = HistAfterEnd(id)
             /\ UNCHANGED <<variant, pending, now>>

\* GET /api/logs/:logFile: the content of fs.readFileSync(logPath) is returned
\* when the guard and the existence test pass
ReadLog(name, other) ==
  LET status == ReadStatus(variant, logs, name, other)
  IN /\ HasLogRoutes(variant)
     /\ response' = ReplyWith("read", status, NoSessionId,
                              [kind |-> "file", asked |-> name,
                               contentOf |-> IF status = 200
                                             THEN PathJoin(LOGS_DIR, name)
                                             ELSE <<>>])
     /\ UNCHANGED <<variant, pending, now, sessions, stats, timers, logs, hist>>

\* Where an exception thrown while a request is handled is caught: in the
\* catch of the route handler when it was thrown inside the handler's try
\* block (the small server's handlers have none), else in the error-handling
\* middleware
ErrorBoundary(v, where) ==
  IF where = "handler" /\ v # "lite" THEN "catch" ELSE "errorHandler"

\* Whether the boundary calls logToFile('SERVER_ERROR', ...)
LogsServerError(v, boundary) ==
  boundary = "errorHandler" /\ v \in {"index", "server"}

\* What the 500 body tells about the exception: the catch blocks of the legacy
\* server send error.message, every other boundary a fixed text
ErrorDetail(v, boundary) ==
  IF v = "legacy" /\ boundary = "catch" THEN "message" ELSE "none"

\* Places where an exception can be raised: a middleware in front of the
\* route (the body parser), or the route handler before it changes anything.
\* The legacy server has no error-handling middleware of its own.
FaultPlaces(v) == IF v = "legacy" THEN {"handler"} ELSE {"middleware", "handler"}

FaultOps == {"start", "detection", "interaction", "end", "read"}

\* A request whose handling throws
RequestThrows(op, where, w) ==
  LET boundary == ErrorBoundary(variant, where)
  IN /\ hist.faults < MaxRequests
     /\ where \in FaultPlaces(variant)
     /\ op = "read" => HasLogRoutes(variant) /\ where = "handler"
     /\ logs' = IF LogsServerError(variant, boundary)
                THEN logToFile(variant, logs, "SERVER_ERROR", EventData, now, w)
                ELSE logs
     /\ response' = ReplyWith(op, 500, NoSessionId,
                              [kind |-> "error",
                               boundary |-> boundary,
                               detail |-> ErrorDetail(variant, boundary)])
     /\ hist' = [hist EXCEPT !.faults = @ + 1]
     /\ UNCHANGED <<variant, pending, now, sessions, stats, timers>>

\* The setTimeout callback of session/end: it runs once its delay has elapsed,
\* possibly later; timers of one delay run in the order they were set
FireEviction ==
  /\ timers # <<>>
  /\ Head(timers).due <= now
  /\ sessions' = MapDelete(sessions, Head(timers).sessionId)
  /\ timers' = Tail(timers)
  /\ stats' = StatsAfterEviction(stats)
  /\ UNCHANGED <<variant, pending, now, logs, response, hist>>

\* The clock advances
TickSteps == {RetentionDelay}

Tick(d) ==
  /\ hist.ticks < MaxTicks
  /\ now' = now + d
  /\ hist' = [hist EXCEPT !.ticks = @ + 1]
  /\ UNCHANGED <<variant, pending, sessions, stats, timers, logs, response>>

\* The steps of the program when a call of logToFile goes as one of `writes`,
\* the count fields of the requests are in `counts` and the interaction
\* values in `values`
Step(writes, counts, values) ==
  \/ \E r \in 0..(NumSuffixes - 1), w \in writes : StartSession(r, w)
  \/ \E id \in RequestIds, f \in counts, o \in counts, w \in writes :
       RecordDetection(id, f, o, w)
  \/ \E id \in RequestIds, x \in WidgetNames, y \in values, w \in writes :
       RecordInteraction(id, x, y, w)
  \/ \E id \in RequestIds, w \in writes : EndSession(id, w)
  \/ FireEviction
  \/ \E d \in TickSteps : Tick(d)

\* The log directory is writable
Next == Step(Writes({TRUE}, {ShortEntry}), CountInputs, Values)

Spec == Init /\ [][Next]_vars

\* The log directory may be unwritable: any write may fail
NextLogFail == Step(Writes(BOOLEAN, {ShortEntry}), {RawNumber(MaxCount)}, {"blur"})

SpecLogFail == Init /\ [][NextLogFail]_vars

\* Sessions are started and requests may throw
NextFaults ==
  \/ \E r \in 0..(NumSuffixes - 1), w \in Writes({TRUE}, {ShortEntry}) :
       StartSession(r, w)
  \/ \E d \in TickSteps : Tick(d)
  \/ \E op \in FaultOps, where \in {"middleware", "handler"},
        w \in Writes({TRUE}, {ShortEntry}) : RequestThrows(op, where, w)

SpecFaults == Init /\ [][NextFaults]_vars

\* Sessions are started and log files are read
NextLogRead ==
  \/ \E r \in 0..(NumSuffixes - 1), w \in Writes({TRUE}, {ShortEntry}) :
       StartSession(r, w)
  \/ \E name \in RequestedNames, other \in BOOLEAN : ReadLog(name, other)
  \/ \E d \in TickSteps : Tick(d)

SpecLogRead == Init /\ [][NextLogRead]_vars

\* File sizes around the rotation limit
NearLimitSizes ==
  {MAX_LOG_FILE_SIZE - ShortEntry, MAX_LOG_FILE_SIZE, MAX_LOG_FILE_SIZE + 1}

\* Log directories left by an earlier run of the same day: no file at all, or
\* every file of one size near the limit
OldLogs ==
  {NoLogs} \cup
    {[e \in EventTypes |-> [file |-> OldFile(size), backups |-> {}]] :
       size \in NearLimitSizes}

\* The server starts on an old log directory; entries have different sizes
InitRotation == InitWith(OldLogs)

NextRotation == Step(Writes({TRUE}, EntrySizes), {RawAbsent}, {NoValue})

SpecRotation == InitRotation /\ [][NextRotation]_vars

----------------------------------------------------------------------------
(* The statistics and health views *)

\* Math.round(d / s) for an integer d and a positive s (halves round up)
MathRoundDiv(d, s) == (2 * d + s) \div (2 * s)

\* Math.round(v / n) on a JS value: NaN and a non-numeric string give NaN
JsRoundDiv(v, n) == IF IsNum(v) THEN Num(MathRoundDiv(v.n, n)) ELSE NaN

\* Mutant of ActiveSessions: nothing is filtered out
AllSessions(store) == store

\* Array.from(stats.sessions.values()).filter(s => !s.endTime); a Date is
\* truthy whatever its time
ActiveSessions(store) == SelectSeq(store, LAMBDA s : s.endTime = NoTime)

\* s.duration || 0 (undefined and 0 are falsy)
DurationOrZero(s) == IF s.duration = NoDuration THEN 0 ELSE s.duration

\* list.reduce((acc, s) => acc + (s.duration || 0), 0)
RECURSIVE SumDurations(_)
SumDurations(list) ==
  IF list = <<>> THEN 0
  ELSE DurationOrZero(Head(list)) + SumDurations(Tail(list))

\* The avgDuration of GET /api/stats, before the "s" is appended
AvgDuration(store, st) ==
  IF st.totalSessions > 0
  THEN MathRoundDiv(SumDurations(ActiveSessions(store)), st.totalSessions)
  ELSE 0

\* Mutant of AvgDetectionsPerSession: the quotient is truncated
AvgDetectionsTruncated(st) ==
  IF st.totalSessions > 0 /\ IsNum(st.totalDetections)
  THEN Num(st.totalDetections.n \div st.totalSessions)
  ELSE IF st.totalSessions > 0 THEN NaN ELSE Num(0)

\* The avgDetectionsPerSession of GET /api/stats
AvgDetectionsPerSession(st) ==
  IF st.totalSessions > 0
  THEN JsRoundDiv(st.totalDetections, st.totalSessions)
  ELSE Num(0)

\* One entry of the activeSessions list of GET /api/stats; its duration is
\* the running time of the session
ActiveRow(s, t) ==
  [sessionId |-> s.sessionId,
   startTime |-> s.startTime,
   duration |-> RoundSeconds(t - s.startTime),
   faceDetections |-> s.faceDetections,
   objectDetections |-> s.objectDetections,
   interactions |-> s.interactions,
   filters |-> s.filters,
   lastActivity |-> s.lastActivity]

\* `s.endTime || 'En progreso'` and `s.duration || 'N/A'`: a duration of 0
\* is shown as 'N/A'
NotAvailable == -2

LegacyRow(s) ==
  [sessionId |-> s.sessionId,
   startTime |-> s.startTime,
   endTime |-> s.endTime,
   duration |-> IF DurationOrZero(s) = 0 THEN NotAvailable ELSE s.duration,
   faceDetections |-> s.faceDetections,
   objectDetections |-> s.objectDetections,
   interactions |-> s.interactions,
   filters |-> s.filters]

\* The body of GET /api/stats
StatsBody(v, store, st, t) ==
  CASE v \in {"index", "server"} ->
         [kind |-> "stats",
          totalSessions |-> st.totalSessions,
          activeCount |-> Len(ActiveSessions(store)),
          totalDetections |-> st.totalDetections,
          totalFaceDetections |-> st.totalFaceDetections,
          totalInteractions |-> st.totalInteractions,
          avgDetectionsPerSession |-> AvgDetectionsPerSession(st),
          avgDuration |-> SecondsText(AvgDuration(store, st)),
          lastUpdated |-> st.lastUpdated,
          activeSessions |-> [i \in 1..Len(ActiveSessions(store)) |->
                                ActiveRow(ActiveSessions(store)[i], t)]]
    [] v = "legacy" ->
         [kind |-> "stats",
          totalSessions |-> st.totalSessions,
          activeCount |-> Len(ActiveSessions(store)),
          totalDetections |-> st.totalDetections,
          totalFaceDetections |-> st.totalFaceDetections,
          totalInteractions |-> st.totalInteractions,
          avgDetectionsPerSession |-> AvgDetectionsPerSession(st),
          lastUpdated |-> st.lastUpdated,
          sessions |-> [i \in 1..Len(store) |-> LegacyRow(store[i])]]
    [] OTHER ->
         [kind |-> "stats",
          totalSessions |-> st.totalSessions,
          totalDetections |-> st.totalDetections,
          totalFaceDetections |-> st.totalFaceDetections,
          totalInteractions |-> st.totalInteractions]

\* The legacy server has no /api/health
HasHealthRoute(v) == v # "legacy"

\* The `sessions` field of GET /api/health
HealthBody(store, st) ==
  [kind |-> "health",
   total |-> st.totalSessions,
   active |-> Len(ActiveSessions(store))]

\* Mutant of StatsAfterRead: the read stamps lastUpdated
StatsAfterReadStamped(st, t) == [st EXCEPT !.lastUpdated = t]

\* What the stats and health handlers assign to the global counters and to
\* lastUpdated: nothing
StatsAfterRead(st, t) == st

\* GET /api/stats
GetStats ==
  /\ response' = ReplyWith("stats", 200, NoSessionId,
                           StatsBody(variant, sessions, stats, now))
  /\ stats' = StatsAfterRead(stats, now)
  /\ UNCHANGED <<variant, pending, now, sessions, timers, logs, hist>>

\* GET /api/health
GetHealth ==
  /\ HasHealthRoute(variant)
  /\ response' = ReplyWith("health", 200, NoSessionId, HealthBody(sessions, stats))
  /\ stats' = StatsAfterRead(stats, now)
  /\ UNCHANGED <<variant, pending, now, sessions, timers, logs, hist>>

\* Telemetry requests and reads of the views
NextViews ==
  \/ Step(Writes({TRUE}, {ShortEntry}), {RawText, RawNumber(MaxCount)}, {NoValue})
  \/ GetStats
  \/ GetHealth

SpecViews == Init /\ [][NextViews]_vars

----------------------------------------------------------------------------
(* Removal of old log files *)

\* Only index.js has DELETE /api/logs/cleanup
HasCleanupRoute(v) == v = "index"

\* One day in milliseconds: cutoffDate.setDate(cutoffDate.getDate() - n) moves
\* the date back by n days
DayMs == 86400000

\* `const { days = 7 } = req.query`
DefaultDays == 7

\* The `days` parameters of the model: absent, "0" and a non-numeric text
DaysInputs == {RawAbsent, RawNumber(0), RawText}

\* The cutoff date at time t; parseInt of a non-numeric text makes it an
\* Invalid Date (NaN)
CutoffDate(t, days) ==
  LET n == ParseInt(IF days.t = "absent" THEN RawNumber(DefaultDays) ELSE days)
  IN IF IsNum(n) THEN Num(t - n.n * DayMs) ELSE NaN

\* Mutant of Older: a file modified exactly at the cutoff counts as old
OlderOrSame(mtime, cutoff) == IsNum(cutoff) /\ mtime <= cutoff.n

\* fileStats.mtime < cutoffDate (false against an Invalid Date)
Older(mtime, cutoff) == IsNum(cutoff) /\ mtime < cutoff.n

\* The entries fs.readdirSync(LOGS_DIR) returns: today's files (no time in
\* their names) and the backups, each with its modification time
DirEntries(files) ==
  {<<e, NoTime, files[e].file.mtime>> : e \in {d \in EventTypes : files[d].file.exists}}
    \cup UNION {{<<e, b.at, b.mtime>> : b \in files[e].backups} : e \in EventTypes}

\* The entries the forEach unlinks
OldEntries(files, cutoff) == {x \in DirEntries(files) : Older(x[3], cutoff)}

\* The directory after the forEach
PurgeFiles(files, cutoff) ==
  [e \in EventTypes |->
     [file |-> IF files[e].file.exists /\ Older(files[e].file.mtime, cutoff)
               THEN NoFile ELSE files[e].file,
      backups |-> {b \in files[e].backups : ~Older(b.mtime, cutoff)}]]

\* DELETE /api/logs/cleanup?days=...; `present` tells whether LOGS_DIR exists
\* (its creation at start-up may have failed).  cutoffDate.toISOString()
\* throws on an Invalid Date, after the forEach, and the catch answers 500.
\* The body also notes the parameter asked for and, for the claims, how many
\* entries the directory is left with.
Cleanup(days, present) ==
  LET cutoff == CutoffDate(now, days)
  IN /\ HasCleanupRoute(variant)
     /\ DirEntries(logs) # {} => present
     /\ IF ~present
        THEN /\ logs' = logs
             /\ response' = ReplyWith("cleanup", 200, NoSessionId,
                                      [kind |-> "nothing", asked |-> days,
                                       deleted |-> 0])
        ELSE /\ logs' = PurgeFiles(logs, cutoff)
             /\ response' =
                  IF IsNum(cutoff)
                  THEN ReplyWith("cleanup", 200, NoSessionId,
                                 [kind |-> "cleanup", asked |-> days,
                                  deleted |-> Cardinality(OldEntries(logs, cutoff)),
                                  cutoffDate |-> cutoff.n,
                                  kept |-> Cardinality(DirEntries(logs'))])
                  ELSE ReplyWith("cleanup", 500, NoSessionId,
                                 [kind |-> "error", asked |-> days,
                                  boundary |-> "catch", detail |-> "none"])
     /\ UNCHANGED <<variant, pending, now, sessions, stats, timers, hist>>

\* Telemetry requests on an old log directory, and removals of old files
NextCleanup ==
  \/ Step(Writes({TRUE}, {ShortEntry}), {RawAbsent}, {NoValue})
  \/ \E days \in DaysInputs, present \in BOOLEAN : Cleanup(days, present)

SpecCleanup == InitRotation /\ [][NextCleanup]_vars

----------------------------------------------------------------------------
(* Sessions of a few hundred milliseconds *)

\* Clock advances that end below, at and above half a second
ShortTicks == {499, 500, 1001}

\* Sessions are started and ended while the clock advances by short steps
NextDurations ==
  \/ \E r \in 0..(NumSuffixes - 1), w \in Writes({TRUE}, {ShortEntry}) :
       StartSession(r, w)
  \/ \E id \in RequestIds, w \in Writes({TRUE}, {ShortEntry}) : EndSession(id, w)
  \/ \E d \in ShortTicks : Tick(d)

SpecDurations == Init /\ [][NextDurations]_vars

----------------------------------------------------------------------------
(* Requests handled concurrently *)

\* Only server.js appends with the asynchronous fs.appendFile; the other
\* servers call fs.appendFileSync, which returns when the write is done
AsyncAppend(v) == v = "server"

\* What a handler has read of its session when its request arrives: nothing,
\* a handler reads the store only once the event loop runs it
NotRead == [taken |-> FALSE]

\* Mutant of SeenAtArrival: the session is read when the request arrives and
\* the handler later works on that copy
SeenEarly(store, id) ==
  IF validateSession(store, id)
  THEN [taken |-> TRUE, session |-> store[Find(store, id)]]
  ELSE NotRead

SeenAtArrival(store, id) == NotRead

\* The requests of the concurrent clients: detections of MaxCount faces and
\* selections of one filter
ConcurrentOps == {"start", "detection", "interaction", "end"}

Waiting(ops) == {q \in pending.requests : q.op \in ops}

\* A request arrives while others may be waiting or writing
Receive(op, id) ==
  /\ op = "start" =>
       /\ id = NoSessionId
       /\ hist.started + Cardinality(Waiting({"start"})) < MaxSessions
  /\ op # "start" =>
       hist.requests + Cardinality(Waiting(ConcurrentOps \ {"start"})) < MaxRequests
  /\ pending' = [pending EXCEPT
                   !.requests = @ \cup {[n |-> hist.received, op |-> op, id |-> id,
                                         at |-> now,
                                         seen |-> SeenAtArrival(sessions, id)]}]
  /\ hist' = [hist EXCEPT !.received = @ + 1]
  /\ UNCHANGED <<variant, now, sessions, stats, timers, logs, response>>

\* The JS thread is inside fs.appendFileSync
Blocked == ~AsyncAppend(variant) /\ pending.writes # <<>>

\* A handler that answers before it has changed or logged anything
Rejected(q, status) ==
  [sessions |-> sessions, stats |-> stats, timers |-> timers,
   hist |-> HistAfterRequest, applied |-> FALSE, logged |-> FALSE,
   event |-> "SERVER_ERROR", reply |-> Reply(q.op, status, q.id)]

\* What the handler of request q does up to its call of logToFile; r is the
\* random suffix a session/start draws
Outcome(q, r) ==
  LET i == Find(sessions, q.id)
      cur == IF q.seen.taken THEN q.seen.session ELSE sessions[i]
      newId == SessionIdOf(now, r)
      short == variant = "lite"
  IN CASE q.op = "start" ->
            [sessions |-> IF UsesMap(variant)
                          THEN MapSet(sessions, newId, NewSession(variant, newId, now))
                          ELSE Append(sessions, NewSession(variant, newId, now)),
             stats |-> StatsAfterStart(stats, now),
             timers |-> timers,
             hist |-> HistAfterStart(newId),
             applied |-> TRUE, logged |-> TRUE, event |-> "SESSION_START",
             reply |-> Reply("start", 200, newId)]
       [] q.op # "start" /\ q.id = NoSessionId -> Rejected(q, 400)
       [] q.op # "start" /\ q.id # NoSessionId /\ i = 0 /\ variant # "legacy" ->
            Rejected(q, NotFoundStatus(variant))
       [] q.op # "start" /\ q.id # NoSessionId /\ i = 0 /\ variant = "legacy" ->
            [Rejected(q, 200) EXCEPT
               !.logged = TRUE,
               !.event = IF q.op = "detection" THEN "DETECTION_RECORD"
                         ELSE IF q.op = "interaction" THEN "INTERACTION_RECORD"
                         ELSE "SESSION_END"]
       [] q.op = "detection" /\ i # 0 ->
            [sessions |-> [sessions EXCEPT
                             ![i] = ApplyDetection(variant, cur, RawNumber(MaxCount),
                                                   RawAbsent, now)],
             stats |-> StatsAfterDetection(variant, stats, RawNumber(MaxCount),
                                           RawAbsent, now),
             timers |-> timers,
             hist |-> HistAfterDetection(q.id, RawNumber(MaxCount)),
             applied |-> TRUE, logged |-> TRUE,
             event |-> IF short THEN "DETECTION" ELSE "DETECTION_RECORD",
             reply |-> Reply("detection", 200, q.id)]
       [] q.op = "interaction" /\ i # 0 ->
            [sessions |-> [sessions EXCEPT
                             ![i] = ApplyInteraction(variant, cur, "filterSelect",
                                                     "blur", now)],
             stats |-> StatsAfterInteraction(stats, now),
             timers |-> timers,
             hist |-> HistAfterInteraction(cur, "filterSelect", "blur"),
             applied |-> TRUE, logged |-> TRUE,
             event |-> IF short THEN "INTERACTION" ELSE "INTERACTION_RECORD",
             reply |-> ReplyWith("interaction", 200, q.id,
                                 InteractionBody(cur, "filterSelect", "blur"))]
       [] q.op = "end" /\ i # 0 ->
            [sessions |-> [sessions EXCEPT ![i] = CloseSession(variant, cur, now)],
             stats |-> StatsAfterEnd(variant, stats, now),
             timers |-> ScheduleEviction(variant, timers, q.id, now),
             hist |-> HistAfterEnd(q.id),
             applied |-> TRUE, logged |-> TRUE, event |-> "SESSION_END",
             reply |-> ReplyWith("end", 200, q.id,
                                 EndBody(variant, CloseSession(variant, cur, now), TRUE))]

\* The data of the record the handler of q passes to logToFile, numbered by
\* the order of the calls (where the records are followed)
WriteData(q, out) ==
  IF ~Followed(logs[out.event]) THEN NoData
  ELSE IF q.op = "detection"
    THEN LogDataAt(Len(hist.served), LoggedCount(variant, RawNumber(MaxCount)),
                   LoggedCount(variant, RawAbsent))
    ELSE LogDataAt(Len(hist.served), NaN, NaN)

\* The event loop runs the handler of a waiting request, from its first
\* statement to its call of logToFile.  With fs.appendFile the handler goes on
\* to answer while the write is in progress; with fs.appendFileSync the thread
\* stays in the call, and the answer is sent when the write is done.
Handle(q, r) ==
  /\ q \in pending.requests
  /\ ~Blocked
  /\ \E out \in {Outcome(q, r)} :
     /\ sessions' = out.sessions
     /\ stats' = out.stats
     /\ timers' = out.timers
     /\ hist' = [out.hist EXCEPT
                   !.served = Append(@, [n |-> q.n, op |-> q.op, at |-> q.at,
                                         id |-> out.reply.sessionId,
                                         applied |-> out.applied])]
     /\ pending' = [requests |-> pending.requests \ {q},
                    writes |-> IF out.logged
                               THEN Append(pending.writes,
                                           [event |-> out.event, bytes |-> ShortEntry,
                                            data |-> WriteData(q, out),
                                            reply |-> out.reply])
                               ELSE pending.writes]
     /\ logs' = IF out.logged /\ AsyncAppend(variant)
                THEN RotateIfOver(variant, logs, out.event, now)
                ELSE logs
     /\ response' = IF out.logged /\ ~AsyncAppend(variant) THEN response
                    ELSE out.reply
     /\ UNCHANGED <<variant, now>>

\* Some waiting request is handled
HandleSome ==
  \E q \in pending.requests, r \in 0..(NumSuffixes - 1) : Handle(q, r)

\* A log write ends: the entry is in its file.  Writes handed to
\* fs.appendFile end in any order.
CompleteWrite(k) ==
  LET w == pending.writes[k]
  IN /\ logs' = IF AsyncAppend(variant)
                THEN AppendOnly(logs, w.event, w.data, now, w.bytes)
                ELSE logToFile(variant, logs, w.event, w.data, now,
                               [ok |-> TRUE, bytes |-> w.bytes])
     /\ pending' = [pending EXCEPT
                      !.writes = SubSeq(@, 1, k - 1) \o SubSeq(@, k + 1, Len(@))]
     /\ response' = IF AsyncAppend(variant) THEN response ELSE w.reply
     /\ UNCHANGED <<variant, now, sessions, stats, timers, hist>>

\* A burst of requests within one millisecond
NextConcurrent ==
  \/ \E op \in ConcurrentOps, id \in RequestIds : Receive(op, id)
  \/ HandleSome
  \/ \E k \in 1..Len(pending.writes) : CompleteWrite(k)

SpecConcurrent == Init /\ [][NextConcurrent]_vars

\* Requests that wait in server.js while the timers of closed sessions run
\* out: a timer callback runs between two handlers, never inside one.  The
\* completion of the appends is left out: it touches the files only, and with
\* fs.appendFile no handler waits for it.
InitEviction == Init /\ variant = "server"

EvictionOps == {"start", "detection", "end"}

NextEviction ==
  \/ \E op \in EvictionOps, id \in {NoSessionId} \cup hist.issued : Receive(op, id)
  \/ HandleSome
  \/ \E d \in TickSteps : Tick(d)
  \/ FireEviction

SpecEviction == InitEviction /\ [][NextEviction]_vars

----------------------------------------------------------------------------
(* The list of log files: GET /api/logs *)

\* The orders in which fs.readdirSync may return the entries of a directory
RECURSIVE Orderings(_)
Orderings(S) ==
  IF S = {} THEN {<<>>}
  ELSE UNION {{<<x>> \o q : q \in Orderings(S \ {x})} : x \in S}

\* file.endsWith('.log'): the current files; a backup ends with '.log.backup'
EndsWithLog(x) == x[2] = NoTime

\* The entries GET /api/logs describes: index.js and server.js filter on the
\* '.log' ending, the legacy server takes every entry
Listed(v, files) ==
  IF v = "legacy" THEN DirEntries(files)
  ELSE {x \in DirEntries(files) : EndsWithLog(x)}

\* Array.prototype.sort with (a, b) => b.lastModified - a.lastModified: stable,
\* later modification times first
RECURSIVE InsertNewest(_, _)
InsertNewest(sorted, x) ==
  IF sorted = <<>> THEN <<x>>
  ELSE IF Head(sorted)[3] >= x[3]
    THEN <<Head(sorted)>> \o InsertNewest(Tail(sorted), x)
    ELSE <<x>> \o sorted

RECURSIVE SortNewestFirst(_)
SortNewestFirst(q) ==
  IF q = <<>> THEN <<>>
  ELSE InsertNewest(SortNewestFirst(SubSeq(q, 1, Len(q) - 1)), q[Len(q)])

\* The logs array of the answer, for the readdir order `dir`: the legacy
\* server pushes the descriptors in that order and does not sort
LogList(v, dir) == IF v = "legacy" THEN dir ELSE SortNewestFirst(dir)

\* GET /api/logs
ListLogs(dir, present) ==
  /\ HasLogRoutes(variant)
  /\ DirEntries(logs) # {} => present
  /\ dir \in Orderings(IF present THEN Listed(variant, logs) ELSE {})
  /\ response' = ReplyWith("list", 200, NoSessionId,
                           [kind |-> "listing",
                            total |-> Len(dir),
                            logs |-> LogList(variant, dir)])
  /\ UNCHANGED <<variant, pending, now, sessions, stats, timers, logs, hist>>

\* A log directory in which an earlier run left a SESSION_START file over the
\* rotation limit
OneOldLog ==
  [e \in EventTypes |->
     [file |-> IF e = "SESSION_START" THEN OldFile(MAX_LOG_FILE_SIZE + 1) ELSE NoFile,
      backups |-> {}]]

InitListing == InitWith({NoLogs, OneOldLog})

\* Sessions are started, counted on and ended while time passes, and the log
\* files are listed
NextListing ==
  \/ \E r \in 0..(NumSuffixes - 1), w \in Writes({TRUE}, {ShortEntry}) :
       StartSession(r, w)
  \/ \E id \in RequestIds, w \in Writes({TRUE}, {ShortEntry}) :
       RecordDetection(id, RawAbsent, RawAbsent, w)
  \/ \E id \in RequestIds, w \in Writes({TRUE}, {ShortEntry}) : EndSession(id, w)
  \/ \E d \in TickSteps : Tick(d)
  \/ \E present \in BOOLEAN :
       \E dir \in Orderings(Listed(variant, logs)) \cup {<<>>} : ListLogs(dir, present)

SpecListing == InitListing /\ [][NextListing]_vars

----------------------------------------------------------------------------
(* The records in the log files *)

\* The longest entry index.js can write: express.json accepts a body of up to
\* 10 MiB, and the entry of a detection or an interaction adds the timestamp,
\* the event type and the pid to fields it takes from the body as they came
\* (confidenceLevel, detectionType, value)
HugeEntry == MAX_LOG_FILE_SIZE + ShortEntry

\* The sizes of the entries a server can write with fields of the body; only
\* index.js accepts bodies as long as the rotation limit
EntrySizesOf(v) == IF v = "index" THEN {ShortEntry, HugeEntry} ELSE {ShortEntry}

InitTrail == InitWith({TrackedLogs})

\* Telemetry requests, with counts that are missing, numbers and text, whose
\* records are followed into the files.  The entries of session/start are
\* short: its fields are the id, the address and 200 characters of the user
\* agent.
NextTrail ==
  \/ \E r \in 0..(NumSuffixes - 1), w \in Writes({TRUE}, {ShortEntry}) :
       StartSession(r, w)
  \/ \E id \in RequestIds, f, o \in {RawAbsent, RawNumber(MaxCount), RawText},
        w \in Writes({TRUE}, EntrySizesOf(variant)) :
       RecordDetection(id, f, o, w)
  \/ \E id \in RequestIds, x \in WidgetNames,
        w \in Writes({TRUE}, EntrySizesOf(variant)) :
       RecordInteraction(id, x, NoValue, w)
  \/ \E id \in RequestIds, w \in Writes({TRUE}, {ShortEntry}) : EndSession(id, w)
  \/ FireEviction
  \/ \E d \in TickSteps : Tick(d)

SpecTrail == InitTrail /\ [][NextTrail]_vars

\* A directory in which an earlier run of the day left one huge
\* DETECTION_RECORD record
OneOldRecord ==
  [TrackedLogs EXCEPT
     !["DETECTION_RECORD"] =
        [file |-> [exists |-> TRUE, size |-> HugeEntry, lines |-> 1,
                   last |-> HugeEntry, mtime |-> 0],
         backups |-> {},
         trail |-> [current |-> <<LogDataAt(0 - 1, NaN, NaN)>>, archived |-> {}]]]

InitBackups == InitWith({OneOldRecord})

\* The same requests on that directory
SpecBackups == InitBackups /\ [][NextTrail]_vars

\* A directory in which an earlier run of the day left a DETECTION_RECORD
\* file over the limit; its records are not followed
OverLimitLog ==
  [TrackedLogs EXCEPT !["DETECTION_RECORD"].file = OldFile(MAX_LOG_FILE_SIZE + 1)]

InitAsync == InitWith({TrackedLogs, OverLimitLog}) /\ variant = "server"

\* server.js under a burst of requests, the records followed into the files
SpecAsync == InitAsync /\ [][NextConcurrent]_vars

----------------------------------------------------------------------------
(* Claims *)

\* The record the store resolves `id` to (only used when the id is in the store)
Lookup(store, id) == store[Find(store, id)]

\* The ids the store resolves
StoredIds(store) == {store[i].sessionId : i \in 1..Len(store)}

Open(s) == s.endTime = NoTime

\* The step is a detection/interaction/end request that was answered `status`
Answered(op, status) ==
  /\ hist'.requests = hist.requests + 1
  /\ response'.op = op
  /\ response'.status = status

\* C1: for every open session faceDetections is the sum of the non-negative
\* faceCount deltas applied to it, and totalFaceDetections is the sum of those
\* sums over all sessions ever created.
C1_FaceSums ==
  /\ \A id \in StoredIds(sessions) :
       Open(Lookup(sessions, id)) =>
         Lookup(sessions, id).faceDetections = Num(hist.faceAsked[id])
  /\ stats.totalFaceDetections = Num(hist.faceAskedTotal)

\* C2: totalFaceDetections <= totalDetections in every reachable state.
C2_FaceAtMostTotal == JsLeq(stats.totalFaceDetections, stats.totalDetections)

\* C3: a successful recordDetection adds a non-negative integer to the
\* session's two counters and to the two global detection counters (a
\* non-numeric or negative count is coerced to 0).
C3_DeltaNonNegative ==
  [][Answered("detection", 200) /\ validateSession(sessions, response'.sessionId) =>
       LET id == response'.sessionId
           before == Lookup(sessions, id)
           after == Lookup(sessions', id)
       IN /\ JsLeq(before.faceDetections, after.faceDetections)
          /\ JsLeq(before.objectDetections, after.objectDetections)
          /\ JsLeq(stats.totalFaceDetections, stats'.totalFaceDetections)
          /\ JsLeq(stats.totalDetections, stats'.totalDetections)]_vars

\* C4: totalSessions, totalDetections, totalFaceDetections and
\* totalInteractions never decrease across any step.
C4_GlobalMonotone ==
  [][/\ stats.totalSessions <= stats'.totalSessions
     /\ stats.totalInteractions <= stats'.totalInteractions
     /\ JsLeq(stats.totalDetections, stats'.totalDetections)
     /\ JsLeq(stats.totalFaceDetections, stats'.totalFaceDetections)]_vars

\* C5: the counters of every stored session are non-negative integers after
\* every step, and no step decreases a counter of a session that is open.
NonNegativeInteger(v) == IsNum(v) /\ v.n >= 0

C5_SessionCounters ==
  [][/\ \A i \in 1..Len(sessions') :
          /\ NonNegativeInteger(sessions'[i].faceDetections)
          /\ NonNegativeInteger(sessions'[i].objectDetections)
          /\ sessions'[i].interactions >= 0
     /\ Answered("detection", 200) \/ Answered("interaction", 200) =>
          \A id \in StoredIds(sessions) :
             Open(Lookup(sessions, id)) =>
               /\ JsLeq(Lookup(sessions, id).faceDetections,
                        Lookup(sessions', id).faceDetections)
               /\ JsLeq(Lookup(sessions, id).objectDetections,
                        Lookup(sessions', id).objectDetections)
               /\ Lookup(sessions, id).interactions <= Lookup(sessions', id).interactions]_vars

\* C6: no recordDetection or recordInteraction request changes the counters
\* or the filters of a session that is closed.
C6_ClosedReadOnly ==
  [][hist'.requests = hist.requests + 1 /\ response'.op \in {"detection", "interaction"} =>
       \A id \in StoredIds(sessions) :
          ~Open(Lookup(sessions, id)) =>
            /\ Lookup(sessions', id).faceDetections = Lookup(sessions, id).faceDetections
            /\ Lookup(sessions', id).objectDetections = Lookup(sessions, id).objectDetections
            /\ Lookup(sessions', id).interactions = Lookup(sessions, id).interactions
            /\ Lookup(sessions', id).filters = Lookup(sessions, id).filters]_vars

\* C7: an endSession request on a session that is already closed leaves its
\* endTime and duration as they were.
C7_CloseOnce ==
  [][hist'.requests = hist.requests + 1 /\ response'.op = "end" =>
       \A id \in StoredIds(sessions) :
          ~Open(Lookup(sessions, id)) =>
            /\ Lookup(sessions', id).endTime = Lookup(sessions, id).endTime
            /\ Lookup(sessions', id).duration = Lookup(sessions, id).duration]_vars

\* C8: totalSessions equals the number of successful startSession calls, in
\* every reachable state (also after sessions were closed or evicted).
C8_TotalSessions == stats.totalSessions = hist.started

\* C8 witness: two sessions were started, one has been evicted and the other
\* is closed and still stored.
C8_Witness ==
  /\ hist.started = 2
  /\ \E id \in hist.issued : ~validateSession(sessions, id)
  /\ \E id \in StoredIds(sessions) : ~Open(Lookup(sessions, id))

C10_FiltersDistinct ==
  \A i \in 1..Len(sessions) :
     \A j, k \in 1..Len(sessions[i].filters) :
        j # k => sessions[i].filters[j] # sessions[i].filters[k]

\* C10 witness: a filterSelect interaction repeated a value that was already
\* in the session's filters.
C10_Witness ==
  /\ hist.repeats > 0
  /\ \E i \in 1..Len(sessions) : Len(sessions[i].filters) > 0

\* The step is a detection/interaction/end request
IsRequest == hist'.requests = hist.requests + 1

\* C11: a detection/interaction/end request without sessionId is answered 400;
\* one whose sessionId is not in the store is answered 404; only a request
\* whose sessionId is in the store is answered 200.
C11_ValidationOrder ==
  [][IsRequest =>
       LET id == response'.sessionId
       IN /\ id = NoSessionId => response'.status = 400
          /\ id # NoSessionId /\ ~validateSession(sessions, id) => response'.status = 404
          /\ id # NoSessionId /\ validateSession(sessions, id) => response'.status = 200]_vars

\* C12: a detection/interaction/end request without sessionId, or with a
\* sessionId that is not in the store, changes no session, no global counter,
\* not lastUpdated, and appends no log record.
C12_FailureChangesNothing ==
  [][IsRequest /\ ~validateSession(sessions, response'.sessionId) =>
       /\ sessions' = sessions
       /\ stats' = stats
       /\ logs' = logs]_vars

\* The step is a session/start request
IsStart == hist'.started = hist.started + 1

\* C13: the id a session/start returns was never returned before; the start
\* replaces no stored record and makes the store one record larger.
C13_FreshId ==
  [][IsStart =>
       /\ response'.sessionId \notin hist.issued
       /\ Len(sessions') = Len(sessions) + 1
       /\ \A i \in 1..Len(sessions) : sessions'[i] = sessions[i]]_vars

C15_LogFailureHarmless ==
  [][logs' = logs =>
       LET id == response'.sessionId
           i == Find(sessions, id)
       IN /\ IsStart =>
               /\ response' = Reply("start", 200, id)
               /\ sessions' = IF UsesMap(variant)
                              THEN MapSet(sessions, id, NewSession(variant, id, now))
                              ELSE Append(sessions, NewSession(variant, id, now))
               /\ stats' = StatsAfterStart(stats, now)
               /\ timers' = timers
          /\ IsRequest /\ validateSession(sessions, id) =>
               /\ response'.status = 200
               /\ response'.op = "detection" =>
                    \E f \in CountInputs, o \in CountInputs :
                       /\ sessions' = [sessions EXCEPT
                                         ![i] = ApplyDetection(variant, @, f, o, now)]
                       /\ stats' = StatsAfterDetection(variant, stats, f, o, now)
                       /\ timers' = timers
               /\ response'.op = "interaction" =>
                    \E w \in WidgetNames, x \in Values :
                       /\ sessions' = [sessions EXCEPT
                                         ![i] = ApplyInteraction(variant, @, w, x, now)]
                       /\ stats' = StatsAfterInteraction(stats, now)
                       /\ timers' = timers
               /\ response'.op = "end" =>
                    /\ sessions' = [sessions EXCEPT ![i] = CloseSession(variant, @, now)]
                    /\ stats' = StatsAfterEnd(variant, stats, now)
                    /\ timers' = ScheduleEviction(variant, timers, id, now)]_vars

\* C15 witness: no write ever succeeded, yet a session was started, counted
\* an interaction and was closed with answer 200.
C15_Witness ==
  /\ logs = NoLogs
  /\ response.op = "end" /\ response.status = 200
  /\ validateSession(sessions, response.sessionId)
  /\ ~Open(Lookup(sessions, response.sessionId))
  /\ Lookup(sessions, response.sessionId).interactions = 1
  /\ stats.totalSessions = 1

C17_NoReadOutsideRoot ==
  response.op = "read" =>
    (~Inside(Resolved(LOGS_DIR, response.body.asked), Resolved(LOGS_DIR, <<>>)) =>
       response.status = 403 /\ response.body.contentOf = <<>>)

\* C18: a session/end request on a stored session is answered 200, sets
\* endTime and duration, appends one SESSION_END record, and returns a summary
\* whose faceDetections, objectDetections, interactions and filters are those
\* of the session; the logged summary has the same four values.
C18_EndSummary ==
  [][IsRequest /\ response'.op = "end"
       /\ validateSession(sessions, response'.sessionId) =>
       LET s == Lookup(sessions', response'.sessionId)
           r == response'.body.returned
           l == response'.body.logged
       IN /\ response'.status = 200
          /\ s.endTime = now
          /\ s.duration = RoundSeconds(now - s.startTime)
          /\ logs'["SESSION_END"].file.lines = logs["SESSION_END"].file.lines + 1
          /\ r.faceDetections = s.faceDetections
          /\ r.objectDetections = s.objectDetections
          /\ r.interactions = s.interactions
          /\ r.filters = s.filters
          /\ l.faceDetections = r.faceDetections
          /\ l.objectDetections = r.objectDetections
          /\ l.interactions = r.interactions
          /\ l.filters = r.filters]_vars

\* a is a prefix of b
IsPrefix(a, b) == Len(a) <= Len(b) /\ SubSeq(b, 1, Len(a)) = a

\* C19: an interaction request answered 200 on a stored session adds exactly 1
\* to the session's interactions and to totalInteractions, and leaves the
\* session's filters as the rule gives them: value appended at the end if and
\* only if widgetName is "filterSelect", value is non-empty and value is not
\* yet among the filters; no request shortens or reorders the filters of a
\* stored session.
C19_InteractionEffect ==
  [][IsRequest =>
       /\ response'.op = "interaction" /\ response'.status = 200
            /\ validateSession(sessions, response'.sessionId) =>
            LET before == Lookup(sessions, response'.sessionId)
                after == Lookup(sessions', response'.sessionId)
            IN /\ after.interactions = before.interactions + 1
               /\ stats'.totalInteractions = stats.totalInteractions + 1
               /\ after.filters = response'.body.policyFilters
       /\ \A id \in StoredIds(sessions) :
             /\ validateSession(sessions', id)
             /\ IsPrefix(Lookup(sessions, id).filters, Lookup(sessions', id).filters)]_vars

\* The step is a request whose handling threw an exception
IsFault == hist'.faults = hist.faults + 1

\* C20: a request whose handling throws is answered 500 with a body that
\* carries no detail of the exception, and one SERVER_ERROR record is logged.
C20_ExceptionLoggedAndGeneric ==
  [][IsFault =>
       /\ response'.status = 500
       /\ response'.body.detail = "none"
       /\ logs'["SERVER_ERROR"].file.lines = logs["SERVER_ERROR"].file.lines + 1]_vars

\* The step is a GET /api/stats call (a repeated call that returns the same
\* body again is a stuttering step)
IsStatsCall == response'.op = "stats" /\ response' # response

\* The step is a GET /api/health call
IsHealthCall == response'.op = "health" /\ response' # response

\* The stored sessions that are closed
ClosedSessions(store) == SelectSeq(store, LAMBDA s : s.endTime # NoTime)

\* C21: the avgDuration a stats snapshot reports is the mean of the durations
\* d1..dn of the closed sessions still stored (to within the rounding to whole
\* seconds); open sessions do not enter it.
C21_AvgDurationOfClosed ==
  [][IsStatsCall /\ variant \in {"index", "server"} =>
       LET closed == ClosedSessions(sessions)
           n == Len(closed)
           avg == response'.body.avgDuration.n
       IN n > 0 =>
            /\ avg * n - SumDurations(closed) < n
            /\ SumDurations(closed) - avg * n < n]_vars

\* C22: the avgDetectionsPerSession of a stats snapshot is the integer nearest
\* to totalDetections / totalSessions, and 0 when totalSessions = 0.
C22_AvgDetectionsPerSession ==
  [][IsStatsCall /\ variant # "lite" =>
       LET avg == response'.body.avgDetectionsPerSession
           d == stats.totalDetections
           s == stats.totalSessions
       IN /\ IsNum(avg)
          /\ s = 0 => avg.n = 0
          /\ s > 0 =>
               /\ IsNum(d)
               /\ 2 * (avg.n * s - d.n) <= s
               /\ 2 * (d.n - avg.n * s) <= s]_vars

\* The same average whenever totalDetections holds a number
AvgOfNumericTotalRounded ==
  [][IsStatsCall /\ variant # "lite" /\ IsNum(stats.totalDetections) =>
       LET avg == response'.body.avgDetectionsPerSession
           d == stats.totalDetections
           s == stats.totalSessions
       IN /\ IsNum(avg)
          /\ s = 0 => avg.n = 0
          /\ s > 0 =>
               /\ 2 * (avg.n * s - d.n) <= s
               /\ 2 * (d.n - avg.n * s) <= s]_vars

\* The step is a DELETE /api/logs/cleanup call
IsCleanup == response'.op = "cleanup" /\ (response' # response \/ logs' # logs)

\* C23: purgeOlderThan(cutoff) removes exactly the entries of the log root
\* whose modification time is before the cutoff and returns their number;
\* entries modified at or after the cutoff stay as they are; on an empty or
\* missing log directory it returns 0 without error.
C23_PurgeOlderThan ==
  [][IsCleanup /\ response'.body.asked.t # "text" =>
       LET body == response'.body
           removed == DirEntries(logs) \ DirEntries(logs')
       IN /\ response'.status = 200
          /\ body.deleted = Cardinality(removed)
          /\ DirEntries(logs') \subseteq DirEntries(logs)
          /\ \A e \in EventTypes :
                /\ logs'[e].file.exists => logs'[e].file = logs[e].file
                /\ logs'[e].backups \subseteq logs[e].backups
          /\ body.kind = "cleanup" =>
               \A x \in DirEntries(logs) : x \in removed <=> x[3] < body.cutoffDate
          /\ body.kind = "nothing" => logs' = logs
          /\ DirEntries(logs) = {} => body.deleted = 0]_vars

\* C23 witness: a cleanup removed a backup, and kept a file that was modified
\* exactly at the cutoff.
C23_Witness ==
  /\ response.op = "cleanup" /\ response.status = 200
  /\ response.body.kind = "cleanup"
  /\ response.body.deleted >= 1 /\ response.body.kept >= 1
  /\ \E e \in EventTypes :
        /\ logs[e].backups = {}
        /\ logs[e].file.exists /\ logs[e].file.mtime = response.body.cutoffDate
        /\ logs[e].file.lines = 1 /\ logs[e].file.size = logs[e].file.last

\* C23 witness on a missing directory: the answer is 200 with 0 removed
CleanupOfMissingDirectory ==
  response.op = "cleanup" /\ response.body.kind = "nothing"

\* C24: a session only moves Open -> Closed -> Evicted: a closed session is
\* never open again (its endTime is never unset), an evicted id never comes
\* back into the store, and no open session leaves the store.
C24_Lifecycle ==
  [][\A id \in hist.issued :
        /\ validateSession(sessions, id) /\ ~Open(Lookup(sessions, id)) =>
             (validateSession(sessions', id) => ~Open(Lookup(sessions', id)))
        /\ validateSession(sessions, id) /\ Open(Lookup(sessions, id)) =>
             validateSession(sessions', id)
        /\ ~validateSession(sessions, id) => ~validateSession(sessions', id)]_vars

\* The same lifecycle as long as no session/start has returned an id that was
\* returned before
LifecycleWithoutCollision ==
  [][hist'.started = Cardinality(hist'.issued) =>
       \A id \in hist.issued :
          /\ validateSession(sessions, id) /\ ~Open(Lookup(sessions, id)) =>
               (validateSession(sessions', id) => ~Open(Lookup(sessions', id)))
          /\ validateSession(sessions, id) /\ Open(Lookup(sessions, id)) =>
               validateSession(sessions', id)
          /\ ~validateSession(sessions, id) => ~validateSession(sessions', id)]_vars

\* The step runs the eviction callback at the head of the timer queue
IsEviction == timers # <<>> /\ timers' = Tail(timers)

\* C27: an eviction that fires removes the session stored under its own id and
\* changes nothing else: every other session, the global counters, the log
\* directory and the last response stay as they are; when its id is already
\* absent (the second timer after two session/end calls) it changes nothing.
C27_EvictionFrame ==
  [][IsEviction =>
       LET id == Head(timers).sessionId
       IN /\ ~validateSession(sessions', id)
          /\ \A k \in 1..Len(sessions) :
                sessions[k].sessionId # id =>
                  /\ validateSession(sessions', sessions[k].sessionId)
                  /\ Lookup(sessions', sessions[k].sessionId) = sessions[k]
          /\ Len(sessions') = Len(sessions) - (IF validateSession(sessions, id) THEN 1 ELSE 0)
          /\ ~validateSession(sessions, id) => sessions' = sessions
          /\ stats' = stats
          /\ logs' = logs
          /\ response' = response
          /\ now' = now]_vars

\* C27 witness: an eviction has removed a closed session while a session
\* under another id stays stored, and a further timer waits for an id that is
\* no longer stored.
C27_Witness ==
  /\ variant = "server"
  /\ Len(sessions) = 1
  /\ timers # <<>>
  /\ ~validateSession(sessions, Head(timers).sessionId)
  /\ hist.firstClose[Head(timers).sessionId] # NoTime

\* C28: the duration of a closed session is (endTime - startTime) in whole
\* seconds, rounded to the nearest second, and is never negative.
C28_DurationRounded ==
  \A k \in 1..Len(sessions) :
     ~Open(sessions[k]) =>
       LET ms == sessions[k].endTime - sessions[k].startTime
           d == sessions[k].duration
       IN /\ d >= 0
          /\ 2 * (1000 * d - ms) <= 1000
          /\ 2 * (ms - 1000 * d) <= 1000

\* C28 witness: a session closed 500 ms after its start has duration 1, and
\* another closed 499 ms after its start has duration 0.
C28_Witness ==
  \E j, k \in 1..Len(sessions) :
     /\ ~Open(sessions[j]) /\ sessions[j].endTime - sessions[j].startTime = 500
     /\ sessions[j].duration = 1
     /\ ~Open(sessions[k]) /\ sessions[k].endTime - sessions[k].startTime = 499
     /\ sessions[k].duration = 0

\* C29: the activeSessions view of a stats snapshot holds exactly the stored
\* sessions whose endTime is unset, and its length plus the number of closed
\* sessions still stored is the size of the store (the counts of the legacy
\* stats and of the health view likewise).
C29_ActiveSessionsView ==
  [][/\ IsStatsCall /\ variant \in {"index", "server"} =>
          LET view == response'.body.activeSessions
          IN /\ \A k \in 1..Len(sessions) :
                   Open(sessions[k]) <=>
                     \E j \in 1..Len(view) : view[j].sessionId = sessions[k].sessionId
             /\ \A j \in 1..Len(view) :
                   /\ validateSession(sessions, view[j].sessionId)
                   /\ Open(Lookup(sessions, view[j].sessionId))
                   /\ \A i \in 1..Len(view) :
                         view[i].sessionId = view[j].sessionId => i = j
             /\ Len(view) = response'.body.activeCount
             /\ Len(view) + Len(ClosedSessions(sessions)) = Len(sessions)
     /\ IsStatsCall /\ variant = "legacy" =>
          response'.body.activeCount + Len(ClosedSessions(sessions)) = Len(sessions)
     /\ IsHealthCall =>
          response'.body.active + Len(ClosedSessions(sessions)) = Len(sessions)]_vars

\* C29 witness: a stats snapshot taken while one session is open and another
\* is closed and still stored lists the open one only.
C29_Witness ==
  /\ response.op = "stats"
  /\ variant \in {"index", "server"}
  /\ Len(sessions) = 2
  /\ Len(ClosedSessions(sessions)) = 1
  /\ Len(response.body.activeSessions) = 1
  /\ \E k \in 1..2 :
        /\ Open(sessions[k])
        /\ response.body.activeSessions[1].sessionId = sessions[k].sessionId

\* The step is a read of one of the views
IsRead == IsStatsCall \/ IsHealthCall

\* C30: the read operations (stats snapshot with its active-session list,
\* health) can be called in every state, always succeed, and change no
\* session, no counter, no lastUpdated, no timer and no log file.
C30_ReadsChangeNothing ==
  /\ [][IsRead =>
          /\ response'.status = 200
          /\ sessions' = sessions
          /\ stats' = stats
          /\ timers' = timers
          /\ logs' = logs
          /\ now' = now]_vars
  /\ [](/\ ENABLED GetStats
        /\ HasHealthRoute(variant) => ENABLED GetHealth)

\* C30 witness: a stats snapshot was answered 200 while a session is stored
\* and its log files exist.
C30_Witness ==
  /\ response.op = "stats" /\ response.status = 200
  /\ response.body.totalSessions = 2
  /\ Len(sessions) = 2
  /\ logs["SESSION_START"].file.lines = 2
  /\ stats.lastUpdated > 0

\* How many requests of kind op the event loop has applied to session id
Served(op, id) ==
  Cardinality({k \in 1..Len(hist.served) :
                 /\ hist.served[k].op = op
                 /\ hist.served[k].id = id
                 /\ hist.served[k].applied})

\* How many requests of kind op it has applied in all
ServedInAll(op) ==
  Cardinality({k \in 1..Len(hist.served) :
                 hist.served[k].op = op /\ hist.served[k].applied})

\* C25: requests handled concurrently leave the counters some serial order of
\* them would leave: every detection, interaction and end the server has
\* answered 200 is in the session's and the global counters, whatever the
\* order of arrival and handling (no update is lost).  Stated for ids that
\* were issued once.
C25_SerialOutcome ==
  hist.started = Cardinality(hist.issued) =>
    /\ \A k \in 1..Len(sessions) :
          LET s == sessions[k]
              id == s.sessionId
          IN /\ s.faceDetections = Num(MaxCount * Served("detection", id))
             /\ s.objectDetections = Num(0)
             /\ s.interactions = Served("interaction", id)
             /\ Open(s) <=> Served("end", id) = 0
    /\ stats.totalFaceDetections = Num(MaxCount * ServedInAll("detection"))
    /\ stats.totalDetections = Num(MaxCount * ServedInAll("detection"))
    /\ stats.totalInteractions = ServedInAll("interaction")
    /\ stats.totalSessions = ServedInAll("start")

\* C25 witness: two detections for one session waited at the same time (the
\* later arrival was handled first) and the session counts both.
C25_Witness ==
  /\ pending.requests = {}
  /\ \E j, k \in 1..Len(hist.served) :
        /\ j < k /\ hist.served[j].n > hist.served[k].n
        /\ hist.served[j].op = "detection" /\ hist.served[k].op = "detection"
        /\ hist.served[j].id = hist.served[k].id
        /\ \E i \in 1..Len(sessions) :
              /\ sessions[i].sessionId = hist.served[j].id
              /\ sessions[i].faceDetections = Num(2 * MaxCount)

\* C26: the log append does not keep request handling waiting for the disk:
\* while a request's log write is in progress, a waiting request can be
\* handled (it reads and changes the store and the counters).
C26_WriteDoesNotBlock ==
  pending.writes # <<>> /\ pending.requests # {} => ENABLED HandleSome

\* The same for server.js alone, whose append is asynchronous
AsyncWriteDoesNotBlock ==
  variant = "server" /\ pending.requests # {} => ENABLED HandleSome

\* In server.js a request has been handled while an earlier request's write
\* was still in progress
HandledDuringWrite ==
  /\ variant = "server"
  /\ Len(pending.writes) = 2
  /\ stats.totalDetections = Num(2 * MaxCount)

\* The log type the specification names for each operation
LogTypeOf(op) ==
  CASE op = "start" -> "SESSION_START"
    [] op = "detection" -> "DETECTION_RECORD"
    [] op = "interaction" -> "INTERACTION_RECORD"
    [] op = "end" -> "SESSION_END"

\* The number of records in a set of backup files
RECURSIVE LinesOfBackups(_)
LinesOfBackups(bs) ==
  IF bs = {} THEN 0
  ELSE LET b == CHOOSE x \in bs : TRUE
       IN b.lines + LinesOfBackups(bs \ {b})

\* The number of records of one event type, current file and backups
RecordsOf(files, e) == files[e].file.lines + LinesOfBackups(files[e].backups)

\* C31: each start, detection, interaction and end answered 200 appends
\* exactly one record to the file of its type (SESSION_START,
\* DETECTION_RECORD, INTERACTION_RECORD, SESSION_END) and changes no file of
\* another type.
C31_OneRecordOfItsType ==
  [][(IsStart \/ IsRequest) /\ response'.status = 200 =>
       LET e == LogTypeOf(response'.op)
       IN /\ RecordsOf(logs', e) = RecordsOf(logs, e) + 1
          /\ \A d \in EventTypes \ {e} : logs'[d] = logs[d]]_vars

\* The same with the names the small server of part_000 gives to its
\* detection and interaction records
OneRecordOfTheHandlersType ==
  [][(IsStart \/ IsRequest) /\ response'.status = 200 =>
       LET e == IF variant = "lite" /\ response'.op = "detection" THEN "DETECTION"
                ELSE IF variant = "lite" /\ response'.op = "interaction"
                  THEN "INTERACTION"
                ELSE LogTypeOf(response'.op)
       IN /\ RecordsOf(logs', e) = RecordsOf(logs, e) + 1
          /\ \A d \in EventTypes \ {e} : logs'[d] = logs[d]]_vars

\* The step is a detection, interaction or end answered 200 on a stored session
IsMutation ==
  /\ IsRequest
  /\ response'.status = 200
  /\ validateSession(sessions, response'.sessionId)

\* What a step does to the two timestamps; complete says whether the session
\* record's lastActivity is looked at
TimestampStep(complete) ==
  /\ (IsStart /\ response'.status = 200) \/ IsMutation =>
        /\ stats'.lastUpdated = now
        /\ complete /\ validateSession(sessions', response'.sessionId) =>
             Lookup(sessions', response'.sessionId).lastActivity = now
  /\ \A k \in 1..Len(sessions') : sessions'[k].lastActivity <= stats'.lastUpdated
  /\ stats.lastUpdated <= stats'.lastUpdated
  /\ \A id \in StoredIds(sessions) :
        validateSession(sessions', id) =>
          (Lookup(sessions, id).lastActivity <= Lookup(sessions', id).lastActivity)

\* C32: every successful start, detection, interaction and end sets the
\* session's lastActivity and the global lastUpdated to the time of the
\* mutation; lastUpdated is never earlier than the lastActivity of a stored
\* session, and neither timestamp moves backwards.
C32_Timestamps == [][TimestampStep(TRUE)]_vars

\* The same for index.js and server.js, whose session records have a
\* lastActivity field
TimestampsOfMainServers ==
  [][(variant \in {"index", "server"}) => TimestampStep(TRUE)]_vars

\* In every server but the one of part_000 lines 415-615 a successful
\* mutation stamps lastUpdated
LastUpdatedStamped ==
  [][(variant # "lite") => TimestampStep(FALSE)]_vars

\* C33: the sessionId and the startTime of a stored session never change
\* after its creation, and a session is stored under the key that equals the
\* sessionId field of its record.
C33_IdentityFrame ==
  [][/\ \A j \in 1..Len(sessions') : KeyOf(sessions'[j]) = sessions'[j].sessionId
     /\ \A k \in 1..Len(sessions) : \A j \in 1..Len(sessions') :
          (KeyOf(sessions'[j]) = KeyOf(sessions[k]) /\ (UsesMap(variant) \/ j = k)) =>
             /\ sessions'[j].sessionId = sessions[k].sessionId
             /\ sessions'[j].startTime = sessions[k].startTime]_vars

\* A session stored in a Map that was counted on and closed after its start
C33_Witness ==
  \E k \in 1..Len(sessions) :
     /\ UsesMap(variant)
     /\ sessions[k].key = sessions[k].sessionId
     /\ sessions[k].endTime > sessions[k].startTime
     /\ sessions[k].interactions > 0

\* The fields of a record stored by server.js
SessionFields == DOMAIN Entry(0, NewSession("server", 0, 0))

\* The step runs the handler of a waiting request
IsHandled == Len(hist'.served) = Len(hist.served) + 1

\* C34: a read of a session interleaved with its eviction sees the complete
\* record or no record: every stored record has all its fields, a handler that
\* finds the session works on that whole record, and a handler that does not
\* find it answers 404 and changes nothing.
C34_WholeOrAbsent ==
  [][/\ \A k \in 1..Len(sessions') : DOMAIN sessions'[k] = SessionFields
     /\ IsHandled =>
          LET e == hist'.served[Len(hist'.served)]
          IN (e.op # "start" /\ e.id # NoSessionId) =>
               IF validateSession(sessions, e.id)
               THEN /\ e.applied
                    /\ response'.status = 200
                    /\ validateSession(sessions', e.id)
                    /\ e.op = "end" =>
                         Lookup(sessions', e.id) =
                           CloseSession(variant, Lookup(sessions, e.id), now)
                    /\ e.op = "detection" =>
                         Lookup(sessions', e.id) =
                           ApplyDetection(variant, Lookup(sessions, e.id),
                                          RawNumber(MaxCount), RawAbsent, now)
               ELSE /\ ~e.applied
                    /\ response'.status = 404
                    /\ sessions' = sessions
                    /\ stats' = stats]_vars

\* A detection that arrived before the retention delay of its closed session
\* ran out and was handled after the eviction: it found no record
C34_Witness ==
  /\ now >= RetentionDelay
  /\ response.status = 404
  /\ \E j, k \in 1..Len(hist.served) :
        /\ j < k
        /\ hist.served[j].op = "end" /\ hist.served[j].applied
        /\ hist.served[k].op = "detection" /\ ~hist.served[k].applied
        /\ hist.served[k].id = hist.served[j].id
        /\ hist.served[k].at = 0

\* The step answers GET /api/logs
IsListing == response'.op = "list" /\ response'.body.kind = "listing"

\* The descriptors are in the order of their modification times, latest first
NewestFirst(q) == \A i, j \in 1..Len(q) : i < j => q[i][3] >= q[j][3]

\* C35: the log listing returns the descriptors ordered by modification time,
\* most recently modified first, with one descriptor for every log file of
\* the log root (every entry whose name ends with '.log').
C35_ListNewestFirst ==
  [][IsListing =>
       LET q == response'.body.logs
       IN /\ NewestFirst(q)
          /\ \A x \in DirEntries(logs) :
                EndsWithLog(x) => Cardinality({i \in 1..Len(q) : q[i] = x}) = 1]_vars

\* In index.js and server.js the listing is ordered, and has one descriptor
\* for every entry whose name ends with '.log'
ListOfMainServers ==
  [][IsListing /\ variant \in {"index", "server"} =>
       LET q == response'.body.logs
       IN /\ NewestFirst(q)
          /\ {q[i] : i \in 1..Len(q)} = {x \in DirEntries(logs) : EndsWithLog(x)}
          /\ Len(q) = Cardinality({x \in DirEntries(logs) : EndsWithLog(x)})]_vars

\* The listing of the legacy server has one descriptor for every entry
ListOfLegacyComplete ==
  [][IsListing /\ variant = "legacy" =>
       LET q == response'.body.logs
       IN /\ {q[i] : i \in 1..Len(q)} = DirEntries(logs)
          /\ Len(q) = Cardinality(DirEntries(logs))]_vars

\* C36: a detection, an interaction or an end on session A leaves the record
\* of every other session B as it was: counters, filters, endTime, duration
\* and lastActivity.
C36_OtherSessionsFrame ==
  [][IsRequest =>
       /\ Len(sessions') = Len(sessions)
       /\ \A k \in 1..Len(sessions) :
            KeyOf(sessions[k]) # response'.sessionId => sessions'[k] = sessions[k]]_vars

\* Session A was closed after time had passed, while session B, stored next to
\* it, is still open and untouched
C36_Witness ==
  /\ Len(sessions) = 2
  /\ response.op = "end" /\ response.status = 200
  /\ response.sessionId = KeyOf(sessions[1])
  /\ KeyOf(sessions[2]) # KeyOf(sessions[1])
  /\ sessions[1].endTime > sessions[1].startTime
  /\ variant = "index"
  /\ sessions[2] = Entry(sessions[2].key,
                         NewSession(variant, sessions[2].sessionId, sessions[2].startTime))

\* C37: in every reachable state a stored session has a duration if and only
\* if it has an endTime.
C37_DurationIffEnded ==
  \A k \in 1..Len(sessions) :
     sessions[k].duration # NoDuration <=> sessions[k].endTime # NoTime

\* A session closed in the millisecond of its start, with duration 0, next to
\* an open session
C37_Witness ==
  /\ \E k \in 1..Len(sessions) :
        sessions[k].endTime = sessions[k].startTime /\ sessions[k].duration = 0
  /\ \E k \in 1..Len(sessions) :
        sessions[k].endTime = NoTime /\ sessions[k].duration = NoDuration
  /\ now > 0

\* The records of the backups, one backup after the other
RECURSIVE ArchivedRecords(_)
ArchivedRecords(as) ==
  IF as = {} THEN <<>>
  ELSE LET a == CHOOSE x \in as : TRUE
       IN a.records \o ArchivedRecords(as \ {a})

\* All records of an event type: today's file and its backups
TrailRecords(files, e) ==
  files[e].trail.current \o ArchivedRecords(files[e].trail.archived)

\* The number a record's count field adds to a sum (nothing when it is not a
\* number)
CountOf(c) == IF IsNum(c) THEN c.n ELSE 0

RECURSIVE FaceSum(_)
FaceSum(q) == IF q = <<>> THEN 0 ELSE CountOf(Head(q).faceCount) + FaceSum(Tail(q))

RECURSIVE BothSum(_)
BothSum(q) ==
  IF q = <<>> THEN 0
  ELSE CountOf(Head(q).faceCount) + CountOf(Head(q).objectCount) + BothSum(Tail(q))

\* The counters are what the records of the files add up to
TrailMatches ==
  /\ stats.totalFaceDetections = Num(FaceSum(TrailRecords(logs, "DETECTION_RECORD")))
  /\ stats.totalDetections = Num(BothSum(TrailRecords(logs, "DETECTION_RECORD")))
  /\ stats.totalInteractions = Len(TrailRecords(logs, "INTERACTION_RECORD"))
  /\ stats.totalSessions = Len(TrailRecords(logs, "SESSION_START"))

\* C38: as long as no append has failed, the faceCount of the
\* DETECTION_RECORD records (today's file and the backups) add up to
\* totalFaceDetections, their faceCount + objectCount to totalDetections, the
\* number of INTERACTION_RECORD records is totalInteractions and the number
\* of SESSION_START records is totalSessions.
C38_TrailOfCounters == TrailMatches

\* The same for index.js alone
TrailOfIndex == variant = "index" => TrailMatches

\* index.js: a detection of one face is in a backup and the counters count it
TrailOfIndexReached ==
  /\ variant = "index"
  /\ logs["DETECTION_RECORD"].trail.archived # {}
  /\ stats.totalFaceDetections = Num(MaxCount)

\* The records of an event type, as a set
RecordSet(files, e) ==
  {TrailRecords(files, e)[i] : i \in 1..Len(TrailRecords(files, e))}

\* What a step keeps of the files of event type e: every record stays, in one
\* place, and every backup stays as it is
KeepsRecords(e) ==
  /\ RecordSet(logs, e) \subseteq RecordSet(logs', e)
  /\ Len(TrailRecords(logs', e)) = Cardinality(RecordSet(logs', e))
  /\ logs[e].backups \subseteq logs'[e].backups
  /\ logs[e].trail.archived \subseteq logs'[e].trail.archived

\* C39: rotation loses no log record: every record that was appended is in
\* exactly one place, today's file or one backup, and a rotation never
\* overwrites an existing backup file.
C39_RotationKeepsRecords ==
  [][\A e \in EventTypes : KeepsRecords(e)]_vars

\* A rotation keeps the records when no backup of the event type was made in
\* the same millisecond
RotationKeepsRecordsAcrossTime ==
  [][\A e \in EventTypes :
       (\A b \in logs[e].backups : b.at # now) => KeepsRecords(e)]_vars

\* Two backups of one event type, made in different milliseconds
TwoBackupsReached ==
  \E e \in EventTypes : Cardinality(logs[e].trail.archived) = 2

\* The records of a file are in the order of their logToFile calls
InCallOrder(q) == \A i, j \in 1..Len(q) : i < j => q[i].n < q[j].n

\* C40: with the asynchronous append of server.js the records of one event
\* type are in the file in the order of their logToFile calls, and a record
\* issued before a rotation is not written into the fresh file after a record
\* issued later.
C40_RecordsInCallOrder ==
  \A e \in EventTypes :
     /\ InCallOrder(logs[e].trail.current)
     /\ \A a \in logs[e].trail.archived : InCallOrder(a.records)

\* The order of a file is broken only by a write that ends after a write of
\* its event type that was issued later
InCallOrderUnlessOvertaken ==
  [][\A e \in EventTypes :
       (/\ InCallOrder(logs[e].trail.current)
        /\ \A i \in 1..Len(logs[e].trail.current), k \in 1..Len(pending.writes) :
              pending.writes[k].event = e =>
                logs[e].trail.current[i].n < pending.writes[k].data.n)
       => InCallOrder(logs'[e].trail.current)]_vars

\* Two records of one type written one after the other, in call order, into
\* the file that followed a rotation
InCallOrderReached ==
  /\ logs["DETECTION_RECORD"].backups # {}
  /\ Len(logs["DETECTION_RECORD"].trail.current) = 2
  /\ InCallOrder(logs["DETECTION_RECORD"].trail.current)

====
